---- MODULE Spec2Model ----
(***************************************************************************)
(* Model of azalea, a Minecraft modpack manager (src/src/azalea).          *)
(* The store is the three record directories of config.py, the registry   *)
(* is the remote Modrinth service, and every command of commands.py is    *)
(* one action.  Strings that the code inspects character by character     *)
(* (Minecraft versions) are sequences of one-character strings.           *)
(***************************************************************************)
EXTENDS FiniteSets, Integers, Sequences, TLC

VARIABLES
    cfg,        \* azalea.json: minecraft_version, loader, loader_version
    files,      \* files[dir][slug]: the record <dir>/<slug>.json, or NoFile
    published,  \* has the registry published its second round of releases
    last,       \* what the most recent command did and reported
    mTarget, mSupported, mResult,   \* a matcher call and its result
    candidates, selMc, selLoader, selected  \* a version selection and its result

mainVars == <<cfg, files, published, last>>
matchVars == <<mTarget, mSupported, mResult>>
selVars == <<candidates, selMc, selLoader, selected>>
vars == <<cfg, files, published, last, mTarget, mSupported, mResult,
          candidates, selMc, selLoader, selected>>

(***************************************************************************)
(* Bounds                                                                  *)
(***************************************************************************)
MaxStrLen == 5
MaxCandidates == 2
MaxBatch == 2

(***************************************************************************)
(* Strings                                                                 *)
(***************************************************************************)
Chars == {"1", ".", "x"}

RECURSIVE StringsOfLen(_)
StringsOfLen(n) ==
    IF n = 0 THEN {<<>>}
    ELSE {Append(s, c) : s \in StringsOfLen(n - 1), c \in Chars}

Strings == UNION {StringsOfLen(n) : n \in 0..MaxStrLen}

DotX == <<".", "x">>

\* str.endswith(suffix)
endswith(s, suffix) ==
    /\ Len(s) >= Len(suffix)
    /\ SubSeq(s, Len(s) - Len(suffix) + 1, Len(s)) = suffix

\* str.startswith(prefix)
startswith(s, prefix) ==
    /\ Len(s) >= Len(prefix)
    /\ SubSeq(s, 1, Len(prefix)) = prefix

\* v[:-2]
DropLast2(v) == SubSeq(v, 1, Len(v) - 2)

(***************************************************************************)
(* minecraft.py: mc_version_matches                                        *)
(***************************************************************************)
\* one iteration of the loop body: does supported entry v accept target
MatchOneSupportedOnly(target, v) ==
    \/ v = target
    \/ /\ endswith(v, DotX)
       /\ \/ target = DropLast2(v)
          \/ startswith(target, DropLast2(v) \o <<".">>)

MatchOne(target, v) ==
    \/ v = target
    \/ /\ endswith(v, DotX)
       /\ \/ target = DropLast2(v)
          \/ startswith(target, DropLast2(v) \o <<".">>)
    \/ /\ endswith(target, DotX)
       /\ \/ v = DropLast2(target)
          \/ startswith(v, DropLast2(target) \o <<".">>)

mc_version_matches_first_only(target, supported) ==
    supported # <<>> /\ MatchOne(target, supported[1])

mc_version_matches(target, supported) ==
    \E i \in 1..Len(supported) : MatchOne(target, supported[i])

(***************************************************************************)
(* modrinth.py: find_best_version (the filter and the choice; the fetch of *)
(* the version list is the caller's VersionList)                           *)
(***************************************************************************)
\* Python None, where a version record is expected
NoVersion == [id |-> "None"]

LoaderOk(v, loader) ==
    \/ v.loaders = {}
    \/ loader \in v.loaders
    \/ "minecraft" \in v.loaders
    \/ "datapack" \in v.loaders
    \/ \E l \in {"iris", "optifine"} : l \in v.loaders

\* matches = [v for v in versions if ...]
RECURSIVE Matches(_, _, _)
Matches(versions, mc, loader) ==
    IF versions = <<>> THEN <<>>
    ELSE LET v == Head(versions)
             rest == Matches(Tail(versions), mc, loader)
         IN IF mc_version_matches(mc, v.game_versions) /\ LoaderOk(v, loader)
            THEN <<v>> \o rest
            ELSE rest

find_best_version_last(versions, mc, loader) ==
    LET matches == Matches(versions, mc, loader)
    IN IF matches = <<>> THEN NoVersion ELSE matches[Len(matches)]

find_best_version(versions, mc, loader) ==
    LET matches == Matches(versions, mc, loader)
    IN IF matches = <<>> THEN NoVersion ELSE matches[1]

(***************************************************************************)
(* The registry (api.modrinth.com and meta.fabricmc.net).  It is outside   *)
(* the program; this is the data the program's requests are answered with.*)
(***************************************************************************)
V11 == <<"1", ".", "1">>
V12 == <<"1", ".", "2">>
V13 == <<"1", ".", "3">>
V1x == <<"1", ".", "x">>

Pids == {"pA", "pB", "pR", "pD", "pS", "pM", "pK"}

Project(pid) ==
    CASE pid = "pA" -> [id |-> "pA", slug |-> "a", project_type |-> "mod",
                        client_side |-> "required", server_side |-> "required"]
      [] pid = "pB" -> [id |-> "pB", slug |-> "b", project_type |-> "mod",
                        client_side |-> "optional", server_side |-> "unsupported"]
      [] pid = "pR" -> [id |-> "pR", slug |-> "r", project_type |-> "resourcepack",
                        client_side |-> "required", server_side |-> "unsupported"]
      [] pid = "pD" -> [id |-> "pD", slug |-> "d", project_type |-> "mod",
                        client_side |-> "unsupported", server_side |-> "required"]
      [] pid = "pS" -> [id |-> "pS", slug |-> "s", project_type |-> "shader",
                        server_side |-> "unsupported"]
      [] pid = "pM" -> [id |-> "pM", slug |-> "m", project_type |-> "modpack",
                        client_side |-> "required", server_side |-> "required"]
      [] pid = "pK" -> [id |-> "pK", slug |-> "k", project_type |-> "datapack",
                        client_side |-> "unsupported", server_side |-> "unsupported"]

Slugs == {Project(p).slug : p \in Pids}

Dep(pid, type) == [project_id |-> pid, dependency_type |-> type]

Ver(id, gvs, loaders, deps) ==
    [id |-> id, version_number |-> id, game_versions |-> gvs,
     loaders |-> loaders, files |-> <<[filename |-> id]>>, dependencies |-> deps]

\* GET /project/{pid}/version, newest first
VersionList(pid, pub) ==
    CASE pid = "pA" ->
           (IF pub THEN <<Ver("a2", <<V1x>>, {"fabric"},
                              <<Dep("pS", "required"), Dep("pB", "required")>>)>>
                   ELSE <<>>)
           \o <<Ver("a0", <<V11>>, {"forge"}, <<>>),
                Ver("a1", <<V11>>, {"fabric", "forge"},
                    <<Dep("pB", "required"), Dep("pD", "optional")>>)>>
      [] pid = "pB" -> <<Ver("b1", <<V1x>>, {}, <<Dep("pA", "required")>>)>>
      [] pid = "pR" ->
           (IF pub THEN <<Ver("r2", <<V11>>, {"minecraft"}, <<Dep("pB", "required")>>)>>
                   ELSE <<>>)
           \o <<Ver("r1", <<V11>>, {"minecraft"},
                    <<Dep("pD", "required"), Dep("pB", "required")>>)>>
      [] pid = "pD" -> <<Ver("d1", <<V11>>, {"fabric"}, <<>>)>>
      [] pid = "pS" -> <<Ver("s1", <<V12>>, {"iris"}, <<>>)>>
      [] pid = "pM" -> <<>>
      [] pid = "pK" -> <<Ver("k1", <<V1x>>, {"datapack"}, <<Dep("pK", "required")>>)>>

\* GET /tag/game_version filtered to version_type == "release"
Releases(pub) ==
    <<[version |-> V11, date_published |-> 1]>>
    \o (IF pub THEN <<[version |-> V12, date_published |-> 2]>> ELSE <<>>)

\* GET meta.fabricmc.net/v2/versions/loader/{mc}: data[0]["loader"]["version"]
FabricLoaders(mc) ==
    CASE mc = V11 -> <<"0.15">>
      [] mc = V12 -> <<"0.16", "0.15">>
      [] OTHER -> <<>>

\* GET /search?query=...: the hits offered to the operator
SearchHits(query) ==
    IF query = "zz" THEN <<[project_id |-> "pD"], [project_id |-> "pM"]>> ELSE <<>>

(***************************************************************************)
(* What the outside world does during one command: which project's        *)
(* requests fail with a transport error (not a 404), and what the operator *)
(* answers to the selection prompt (0 is the empty answer).                *)
(***************************************************************************)
NoPid == "-"

Env(errProj, errVer, choice) ==
    [errProj |-> errProj, errVer |-> errVer, choice |-> choice, gone |-> NoPid]

Quiet == Env(NoPid, NoPid, 0)

\* the registry no longer has this project: its project requests answer 404
Gone(pid) == [Quiet EXCEPT !.gone = pid]

Envs == {Quiet, Env(NoPid, NoPid, 1), Env("pB", NoPid, 2), Env(NoPid, "pB", 0),
         Gone("pD")}

(***************************************************************************)
(* config.py: the record directories                                       *)
(***************************************************************************)
MODS == "mods"
RESOURCEPACKS == "resourcepacks"
SHADERPACKS == "shaderpacks"

Dirs == {MODS, RESOURCEPACKS, SHADERPACKS}

\* cli.py, the single-file program, names a fourth directory; config.py,
\* which commands.py imports, does not, and no command of commands.py
\* reads or writes it
DATAPACKS == "datapacks"

\* <dir>/<slug>.json does not exist
NoFile == [exists |-> FALSE]

Exists(fs, dir, slug) == slug \in Slugs /\ fs[dir][slug] # NoFile

EmptyStore == [d \in Dirs |-> [s \in Slugs |-> NoFile]]

\* every record of a directory: dir.glob("*.json")
Glob(fs, dir) == {s \in Slugs : Exists(fs, dir, s)}

(***************************************************************************)
(* modrinth.py: resolve_project, search_projects                           *)
(***************************************************************************)
\* An identifier is the user's input split at "/": <<"a">> is the plain
\* input a, <<"https:", "", "modrinth.com", "mod", "a", "">> a project URL.
RECURSIVE rstripSlash(_)
rstripSlash(segs) ==
    IF Len(segs) > 1 /\ segs[Len(segs)] = ""
    THEN rstripSlash(SubSeq(segs, 1, Len(segs) - 1))
    ELSE segs

SlugOfInput(user_input) ==
    IF \E i \in 1..Len(user_input) : user_input[i] = "modrinth.com"
    THEN LET t == rstripSlash(user_input) IN t[Len(t)]
    ELSE user_input[Len(user_input)]

\* GET /project/{key}: "ok" with the project, "404", or a transport "error"
GetProject(key, env) ==
    LET found == {p \in Pids : Project(p).id = key \/ Project(p).slug = key}
    IN IF found = {} THEN [status |-> "404", proj |-> Project("pM")]
       ELSE LET p == CHOOSE q \in found : TRUE
            IN IF env.gone = p
               THEN [status |-> "404", proj |-> Project("pM")]
               ELSE IF env.errProj = p
               THEN [status |-> "error", proj |-> Project(p)]
               ELSE [status |-> "ok", proj |-> Project(p)]

\* returns the selected hit's position, 0 for None (no hits, or empty answer)
search_projects(query, env) ==
    LET hits == SearchHits(query)
    IN IF hits = <<>> THEN 0
       ELSE IF env.choice \in 1..Len(hits) THEN env.choice ELSE 0

resolve_project_searching_on_any_failure(user_input, env) ==
    LET slug == SlugOfInput(user_input)
        direct == GetProject(slug, env)
        sel == search_projects(slug, env)
        byId == GetProject(SearchHits(slug)[sel].project_id, env)
    IN IF direct.status = "ok"
       THEN [status |-> "ok", proj |-> direct.proj,
             requests |-> <<[kind |-> "project", key |-> slug]>>]
       ELSE IF sel = 0
       THEN [status |-> "exit", proj |-> direct.proj,
             requests |-> <<[kind |-> "project", key |-> slug],
                            [kind |-> "search", key |-> slug]>>]
       ELSE [status |-> IF byId.status = "404" THEN "error" ELSE byId.status,
             proj |-> byId.proj,
             requests |-> <<[kind |-> "project", key |-> slug],
                            [kind |-> "search", key |-> slug],
                            [kind |-> "project",
                             key |-> SearchHits(slug)[sel].project_id]>>]

\* status: "ok", "exit" (sys.exit(1)) or "error" (HTTPError raised);
\* requests: the registry requests made, in order
resolve_project(user_input, env) ==
    LET slug == SlugOfInput(user_input)
        direct == GetProject(slug, env)
        sel == search_projects(slug, env)
        byId == GetProject(SearchHits(slug)[sel].project_id, env)
    IN IF direct.status = "ok"
       THEN [status |-> "ok", proj |-> direct.proj,
             requests |-> <<[kind |-> "project", key |-> slug]>>]
       ELSE IF direct.status = "error"
       THEN [status |-> "error", proj |-> direct.proj,
             requests |-> <<[kind |-> "project", key |-> slug]>>]
       ELSE IF sel = 0
       THEN [status |-> "exit", proj |-> direct.proj,
             requests |-> <<[kind |-> "project", key |-> slug],
                            [kind |-> "search", key |-> slug]>>]
       ELSE [status |-> IF byId.status = "404" THEN "error" ELSE byId.status,
             proj |-> byId.proj,
             requests |-> <<[kind |-> "project", key |-> slug],
                            [kind |-> "search", key |-> slug],
                            [kind |-> "project",
                             key |-> SearchHits(slug)[sel].project_id]>>]

(***************************************************************************)
(* commands.py: install_mod                                                *)
(***************************************************************************)
\* The running state of one call tree: the store, the shared `installed`
\* set, whether an exception is propagating, and logs of the registry
\* requests, the record writes and the errors reported.
CallState(fs, visited) ==
    [files |-> fs, visited |-> visited, status |-> "ok",
     requests |-> <<>>, writes |-> <<>>, errs |-> <<>>]

TargetDir(project_type) ==
    IF project_type = "resourcepack" THEN RESOURCEPACKS
    ELSE IF project_type = "shader" THEN SHADERPACKS
    ELSE MODS

RequiredDeps_of_any_type(dependencies) ==
    [i \in 1..Len(dependencies) |-> dependencies[i].project_id]

\* deps = [d["project_id"] for d in version["dependencies"] if required]
RECURSIVE RequiredDeps(_)
RequiredDeps(dependencies) ==
    IF dependencies = <<>> THEN <<>>
    ELSE (IF Head(dependencies).dependency_type = "required"
          THEN <<Head(dependencies).project_id>> ELSE <<>>)
         \o RequiredDeps(Tail(dependencies))

\* proj.get(key, default)
Get(proj, key, default) == IF key \in DOMAIN proj THEN proj[key] ELSE default

Side_required_only(proj) ==
    LET client_supported == Get(proj, "client_side", "unknown") = "required"
        server_supported == Get(proj, "server_side", "unknown") = "required"
    IN IF client_supported /\ server_supported THEN "both"
       ELSE IF client_supported THEN "client"
       ELSE IF server_supported THEN "server"
       ELSE "unknown"

Side(proj) ==
    LET client_supported == Get(proj, "client_side", "unknown") # "unsupported"
        server_supported == Get(proj, "server_side", "unknown") # "unsupported"
    IN IF client_supported /\ server_supported THEN "both"
       ELSE IF client_supported THEN "client"
       ELSE IF server_supported THEN "server"
       ELSE "unknown"

NewEntry(proj, version, explicit) ==
    [project_id |-> proj.id,
     slug |-> proj.slug,
     version_id |-> version.id,
     version_number |-> version.version_number,
     side |-> Side(proj),
     file |-> version.files[1],
     explicit |-> explicit,
     dependencies |-> RequiredDeps(version.dependencies)]

\* save_json(dir / f"{slug}.json", data)
save_json_also_mods(fs, dir, slug, data) ==
    [fs EXCEPT ![dir][slug] = data, ![MODS][slug] = data]

save_json(fs, dir, slug, data) == [fs EXCEPT ![dir][slug] = data]

\* lines 43-45: an explicit request for a record that is there and implicit
PromotableAnyCall(explicit, existing) ==
    existing # NoFile /\ ~existing.explicit

PromotableAnyFlag(explicit, existing) ==
    explicit /\ existing # NoFile

Promotable(explicit, existing) ==
    explicit /\ existing # NoFile /\ ~existing.explicit

WriteLog(dir, slug, kind, explicit) ==
    [dir |-> dir, slug |-> slug, kind |-> kind, explicit |-> explicit]

\* line 50 and the version request of line 52
Visit(s, proj) ==
    [s EXCEPT !.visited = @ \cup {proj.slug},
              !.requests = @ \o <<[kind |-> "versions", key |-> proj.id]>>]

Revisit_without_promotion(s, proj, target_dir, explicit) == s

\* lines 41-49: the slug is already in `installed`
Revisit(s, proj, target_dir, explicit) ==
    IF Promotable(explicit, s.files[target_dir][proj.slug])
    THEN [s EXCEPT
            !.files = save_json(@, target_dir, proj.slug,
                                [s.files[target_dir][proj.slug] EXCEPT !.explicit = TRUE]),
            !.writes = Append(@, WriteLog(target_dir, proj.slug, "promote", TRUE))]
    ELSE s

\* lines 73-90: build the record and save it
Record(s, proj, target_dir, version, explicit) ==
    [s EXCEPT !.files = save_json(@, target_dir, proj.slug,
                                  NewEntry(proj, version, explicit)),
              !.writes = Append(@, WriteLog(target_dir, proj.slug, "install", explicit))]

RECURSIVE install_mod(_, _, _, _, _)
RECURSIVE install_deps(_, _, _, _)
RECURSIVE install_version(_, _, _, _, _, _)
RECURSIVE install_project(_, _, _, _, _)
RECURSIVE install_resolved(_, _, _, _, _)

RolledBack(r, s) == IF r.status # "ok" THEN [r EXCEPT !.files = s.files] ELSE r

install_deps_rolling_back(deps, s, c, env) ==
    IF deps = <<>> \/ s.status # "ok" THEN s
    ELSE RolledBack(install_deps(Tail(deps),
                                 install_mod(<<Head(deps)>>, s, FALSE, c, env), c, env),
                    s)

\* for dep in deps: install_mod(dep, installed, explicit=False)
install_deps(deps, s, c, env) ==
    IF deps = <<>> \/ s.status # "ok" THEN s
    ELSE install_deps(Tail(deps), install_mod(<<Head(deps)>>, s, FALSE, c, env), c, env)

install_version_giving_up(proj, version, s, explicit, c, env) ==
    IF version = NoVersion
    THEN [s EXCEPT !.errs = Append(@, [kind |-> "nocompat", slug |-> proj.slug]),
                   !.status = "exit"]
    ELSE install_deps(RequiredDeps(version.dependencies),
                      Record(s, proj, TargetDir(proj.project_type), version, explicit),
                      c, env)

\* lines 53-94, version being what find_best_version returned
install_version(proj, version, s, explicit, c, env) ==
    IF version = NoVersion
    THEN [s EXCEPT !.errs = Append(@, [kind |-> "nocompat", slug |-> proj.slug])]
    ELSE install_deps(RequiredDeps(version.dependencies),
                      Record(s, proj, TargetDir(proj.project_type), version, explicit),
                      c, env)

install_project_visiting_first(proj, s, explicit, c, env) ==
    IF proj.slug \in s.visited
    THEN Revisit(s, proj, TargetDir(proj.project_type), explicit)
    ELSE IF proj.project_type = "modpack"
    THEN [s EXCEPT !.visited = @ \cup {proj.slug},
                   !.errs = Append(@, [kind |-> "modpack", slug |-> proj.slug])]
    ELSE IF env.errVer = proj.id
    THEN [Visit(s, proj) EXCEPT !.status = "error"]
    ELSE install_version(proj,
                         find_best_version(VersionList(proj.id, published),
                                           c.minecraft_version, c.loader),
                         Visit(s, proj), explicit, c, env)

install_project_rechecking_explicit(proj, s, explicit, c, env) ==
    IF proj.project_type = "modpack"
    THEN [s EXCEPT !.errs = Append(@, [kind |-> "modpack", slug |-> proj.slug])]
    ELSE IF proj.slug \in s.visited /\ ~explicit
    THEN Revisit(s, proj, TargetDir(proj.project_type), explicit)
    ELSE IF env.errVer = proj.id
    THEN [Visit(s, proj) EXCEPT !.status = "error"]
    ELSE install_version(proj,
                         find_best_version(VersionList(proj.id, published),
                                           c.minecraft_version, c.loader),
                         Visit(s, proj), explicit, c, env)

\* lines 29-52, proj being what resolve_project returned; the version
\* request fails when the registry is down for this project
install_project(proj, s, explicit, c, env) ==
    IF proj.project_type = "modpack"
    THEN [s EXCEPT !.errs = Append(@, [kind |-> "modpack", slug |-> proj.slug])]
    ELSE IF proj.slug \in s.visited
    THEN Revisit(s, proj, TargetDir(proj.project_type), explicit)
    ELSE IF env.errVer = proj.id
    THEN [Visit(s, proj) EXCEPT !.status = "error"]
    ELSE install_version(proj,
                         find_best_version(VersionList(proj.id, published),
                                           c.minecraft_version, c.loader),
                         Visit(s, proj), explicit, c, env)

\* line 26: r is the outcome of resolve_project, which may have raised
install_resolved(r, s, explicit, c, env) ==
    IF r.status # "ok"
    THEN [s EXCEPT !.requests = @ \o r.requests, !.status = r.status]
    ELSE install_project(r.proj, [s EXCEPT !.requests = @ \o r.requests],
                         explicit, c, env)

\* c is the configuration load_config() returns
install_mod(identifier, s, explicit, c, env) ==
    install_resolved(resolve_project(identifier, env), s, explicit, c, env)

(***************************************************************************)
(* commands.py: install_from_file                                          *)
(***************************************************************************)
BlankLine == <<"">>
CommentLine == <<"# picks">>

\* not line or line.startswith("#")
Skipped(line) == line = BlankLine \/ line = CommentLine

\* b: the call state shared by the whole batch plus the two result lists,
\* and the call state the latest attempted line started from.
\* lines 115-125: r is what install_mod left, having returned or raised
line_result(line, b, r) ==
    [s |-> r,
     before |-> b.s,
     installed_any |-> IF r.status = "ok" THEN Append(b.installed_any, line)
                       ELSE b.installed_any,
     failed |-> IF r.status = "ok" THEN b.failed ELSE Append(b.failed, line)]

install_line_unless_failed(line, b, c, env) ==
    IF b.s.status # "ok" THEN b
    ELSE line_result(line, b, install_mod(line, b.s, TRUE, c, env))

\* the try statement of one line; an earlier line's exception is over
install_line(line, b, c, env) ==
    line_result(line, b, install_mod(line, [b.s EXCEPT !.status = "ok"], TRUE, c, env))

RECURSIVE install_lines(_, _, _, _)
install_lines(lines, b, c, env) ==
    IF lines = <<>> THEN b
    ELSE IF Skipped(Head(lines)) THEN install_lines(Tail(lines), b, c, env)
    ELSE install_lines(Tail(lines), install_line(Head(lines), b, c, env), c, env)

install_from_file(lines, fs, c, env) ==
    install_lines(lines,
                  [s |-> CallState(fs, {}), before |-> CallState(fs, {}),
                   installed_any |-> <<>>, failed |-> <<>>],
                  c, env)

(***************************************************************************)
(* commands.py: prune_unused_deps, remove_mod                              *)
(***************************************************************************)
\* by_id = {m["project_id"]: m for m in mods}, mods being the records of MODS
InById(fs, pid) == \E sl \in Glob(fs, MODS) : fs[MODS][sl].project_id = pid

ById(fs, pid) ==
    fs[MODS][CHOOSE sl \in Glob(fs, MODS) : fs[MODS][sl].project_id = pid]

RECURSIVE SeqOfSet(_)
SeqOfSet(S) ==
    IF S = {} THEN <<>>
    ELSE LET x == CHOOSE y \in S : TRUE IN <<x>> \o SeqOfSet(S \ {x})

\* for dep in mod.get("dependencies", []): add and push the unseen ones
RECURSIVE PushDeps(_, _, _)
PushDeps(deps, needed, stack) ==
    IF deps = <<>> THEN [needed |-> needed, stack |-> stack]
    ELSE IF Head(deps) \in needed
         THEN PushDeps(Tail(deps), needed, stack)
         ELSE PushDeps(Tail(deps), needed \cup {Head(deps)}, Append(stack, Head(deps)))

\* while stack: cur = stack.pop() ...
RECURSIVE Mark(_, _, _)
Mark(fs, needed, stack) ==
    IF stack = <<>> THEN needed
    ELSE LET cur == stack[Len(stack)]
             rest == SubSeq(stack, 1, Len(stack) - 1)
         IN IF ~InById(fs, cur) THEN Mark(fs, needed, rest)
            ELSE LET p == PushDeps(ById(fs, cur).dependencies, needed, rest)
                 IN Mark(fs, p.needed, p.stack)

Needed(fs) ==
    LET seed == {fs[MODS][sl].project_id : sl \in {t \in Glob(fs, MODS) : fs[MODS][t].explicit}}
    IN Mark(fs, seed, SeqOfSet(seed))

\* the records the sweep unlinks
Swept(fs) == {sl \in Glob(fs, MODS) : fs[MODS][sl].project_id \notin Needed(fs)}

prune_unused_deps(fs) ==
    [files |-> [fs EXCEPT ![MODS] = [sl \in Slugs |-> IF sl \in Swept(fs) THEN NoFile ELSE @[sl]]],
     removed |-> Swept(fs)]

\* p.unlink()
Unlink(fs, dir, slug) == [fs EXCEPT ![dir][slug] = NoFile]

remove_mod(slug, fs) ==
    IF ~Exists(fs, MODS, slug)
    THEN [files |-> fs, not_installed |-> TRUE, removed |-> {}]
    ELSE LET pr == prune_unused_deps(Unlink(fs, MODS, slug))
         IN [files |-> pr.files, not_installed |-> FALSE, removed |-> pr.removed]

(***************************************************************************)
(* minecraft.py: resolve_target_mc, get_latest_release_version,            *)
(* get_latest_fabric_loader                                                *)
(***************************************************************************)
Digits == {"0", "1", "2", "3", "4", "5", "6", "7", "8", "9"}

LatestWord == <<"l", "a", "t", "e", "s", "t">>

LowerChar(ch) ==
    CASE ch = "L" -> "l" [] ch = "A" -> "a" [] ch = "T" -> "t"
      [] ch = "E" -> "e" [] ch = "S" -> "s" [] OTHER -> ch

\* str.lower()
lower(str) == [i \in 1..Len(str) |-> LowerChar(str[i])]

\* str.split("."): the parts between the dots
RECURSIVE split(_, _)
split(str, part) ==
    IF str = <<>> THEN <<part>>
    ELSE IF Head(str) = "." THEN <<part>> \o split(Tail(str), <<>>)
    ELSE split(Tail(str), Append(part, Head(str)))

\* str.isdigit()
isdigit(part) == part # <<>> /\ \A i \in 1..Len(part) : part[i] \in Digits

\* max(releases, key=date_published): the first release with the greatest date
LatestRelease(releases) ==
    LET i == CHOOSE j \in 1..Len(releases) :
                /\ \A k \in 1..Len(releases) :
                      releases[k].date_published <= releases[j].date_published
                /\ \A k \in 1..(j - 1) :
                      releases[k].date_published < releases[j].date_published
    IN releases[i]

resolve_target_mc_unlisted(user_arg, releases, tagsDown) ==
    LET parts == split(user_arg, <<>>)
    IN IF tagsDown THEN [status |-> "error", version |-> <<>>]
       ELSE IF releases = <<>> THEN [status |-> "exit", version |-> <<>>]
       ELSE IF lower(user_arg) = LatestWord
       THEN [status |-> "ok", version |-> LatestRelease(releases).version]
       ELSE IF ~(\A i \in 1..Len(parts) : isdigit(parts[i]))
       THEN [status |-> "exit", version |-> <<>>]
       ELSE [status |-> "ok", version |-> user_arg]

\* status "ok" with the version, "exit" for sys.exit(1), "error" when the
\* release list cannot be fetched
resolve_target_mc(user_arg, releases, tagsDown) ==
    LET parts == split(user_arg, <<>>)
        valid_versions == {releases[i].version : i \in 1..Len(releases)}
    IN IF tagsDown THEN [status |-> "error", version |-> <<>>]
       ELSE IF releases = <<>> THEN [status |-> "exit", version |-> <<>>]
       ELSE IF lower(user_arg) = LatestWord
       THEN [status |-> "ok", version |-> LatestRelease(releases).version]
       ELSE IF ~(\A i \in 1..Len(parts) : isdigit(parts[i]))
       THEN [status |-> "exit", version |-> <<>>]
       ELSE IF user_arg \notin valid_versions
       THEN [status |-> "exit", version |-> <<>>]
       ELSE [status |-> "ok", version |-> user_arg]

\* the version, or <<>> for None
get_latest_release_version(releases, tagsDown) ==
    IF tagsDown \/ releases = <<>> THEN <<>>
    ELSE LatestRelease(releases).version

NoLoader == "None"

get_latest_fabric_loader(mc_version, fabricDown) ==
    IF fabricDown \/ FabricLoaders(mc_version) = <<>> THEN NoLoader
    ELSE FabricLoaders(mc_version)[1]

(***************************************************************************)
(* commands.py: upgrade                                                    *)
(***************************************************************************)
UEnv(tagsDown, fabricDown, errVer) ==
    [tagsDown |-> tagsDown, fabricDown |-> fabricDown, errVer |-> errVer]

UEnvs == {UEnv(FALSE, FALSE, NoPid), UEnv(TRUE, FALSE, NoPid),
          UEnv(FALSE, TRUE, NoPid), UEnv(FALSE, FALSE, "pB")}

\* the loader test of the compatibility scan
ScanLoaderOk(v, loader) ==
    \/ v.loaders = {}
    \/ loader \in v.loaders
    \/ "minecraft" \in v.loaders

\* compatible = any(... for v in versions)
ScanCompatible(versions, target_mc, loader) ==
    \E i \in 1..Len(versions) :
        /\ mc_version_matches(target_mc, versions[i].game_versions)
        /\ ScanLoaderOk(versions[i], loader)

\* the directories whose records the compatibility scan visits
ScanDirs == {MODS}

ScanIncompatible(fs, target_mc, loader, pub) ==
    {fs[d][sl].slug : <<d, sl>> \in
        {x \in ScanDirs \X Slugs :
            /\ Exists(fs, x[1], x[2])
            /\ ~ScanCompatible(VersionList(fs[x[1]][x[2]].project_id, pub),
                               target_mc, loader)}}

ScanFails(fs, errVer) ==
    \E d \in ScanDirs : \E sl \in Glob(fs, d) : fs[d][sl].project_id = errVer

\* the result carries the store and the configuration the command leaves
upgrade_dropping_incompatible(target_mc_arg, fs, c, pub, env) ==
    LET releases == Releases(pub)
        rt == resolve_target_mc(target_mc_arg, releases, env.tagsDown)
        latest == get_latest_release_version(releases, env.tagsDown)
        target_mc == IF target_mc_arg # <<>> THEN rt.version ELSE latest
        incompatible == ScanIncompatible(fs, target_mc, c.loader, pub)
        new_loader == get_latest_fabric_loader(target_mc, env.fabricDown)
        c1 == [c EXCEPT !.minecraft_version = target_mc]
        c2 == IF c.loader = "fabric" /\ new_loader # c.loader_version
                 /\ new_loader \notin {NoLoader, ""}
              THEN [c1 EXCEPT !.loader_version = new_loader]
              ELSE c1
        R(outcome, status, cc, inc) ==
            [outcome |-> outcome, status |-> status, cfg |-> cc,
             incompatible |-> inc, target |-> target_mc,
             files |-> [d \in Dirs |-> [sl \in Slugs |->
                          IF d \in ScanDirs /\ sl \in inc THEN NoFile ELSE fs[d][sl]]]]
    IN IF target_mc_arg # <<>> /\ rt.status # "ok"
       THEN [outcome |-> "invalid", status |-> rt.status, cfg |-> c,
             incompatible |-> {}, target |-> <<>>, files |-> fs]
       ELSE IF target_mc_arg = <<>> /\ latest = <<>>
       THEN R("unresolved", "ok", c, {})
       ELSE IF target_mc = c.minecraft_version
       THEN R("already", "ok", c, {})
       ELSE IF ScanFails(fs, env.errVer)
       THEN R("crashed", "error", c, {})
       ELSE IF incompatible # {}
       THEN R("blocked", "ok", c, incompatible)
       ELSE R("upgraded", "ok", c2, {})

upgrade(target_mc_arg, fs, c, pub, env) ==
    LET releases == Releases(pub)
        rt == resolve_target_mc(target_mc_arg, releases, env.tagsDown)
        latest == get_latest_release_version(releases, env.tagsDown)
        target_mc == IF target_mc_arg # <<>> THEN rt.version ELSE latest
        incompatible == ScanIncompatible(fs, target_mc, c.loader, pub)
        new_loader == get_latest_fabric_loader(target_mc, env.fabricDown)
        c1 == [c EXCEPT !.minecraft_version = target_mc]
        c2 == IF c.loader = "fabric" /\ new_loader # c.loader_version
                 /\ new_loader \notin {NoLoader, ""}
              THEN [c1 EXCEPT !.loader_version = new_loader]
              ELSE c1
        R(outcome, status, cc, inc) ==
            [outcome |-> outcome, status |-> status, cfg |-> cc,
             incompatible |-> inc, target |-> target_mc, files |-> fs]
    IN IF target_mc_arg # <<>> /\ rt.status # "ok"
       THEN [outcome |-> "invalid", status |-> rt.status, cfg |-> c,
             incompatible |-> {}, target |-> <<>>, files |-> fs]
       ELSE IF target_mc_arg = <<>> /\ latest = <<>>
       THEN R("unresolved", "ok", c, {})
       ELSE IF target_mc = c.minecraft_version
       THEN R("already", "ok", c, {})
       ELSE IF ScanFails(fs, env.errVer)
       THEN R("crashed", "error", c, {})
       ELSE IF incompatible # {}
       THEN R("blocked", "ok", c, incompatible)
       ELSE R("upgraded", "ok", c2, {})

(***************************************************************************)
(* commands.py: update_all                                                 *)
(***************************************************************************)
UpdateDirs == {MODS, RESOURCEPACKS, SHADERPACKS}

UpdateOneKeepingDependencies(data, force, c, pub, errVer) ==
    LET pid == data.project_id
        newest == find_best_version(VersionList(pid, pub), c.minecraft_version, c.loader)
    IN IF errVer = pid THEN [result |-> "failed", data |-> data]
       ELSE IF newest = NoVersion THEN [result |-> "failed", data |-> data]
       ELSE IF newest.id = data.version_id /\ ~force
       THEN [result |-> "skipped", data |-> data]
       ELSE [result |-> "updated",
             data |-> [data EXCEPT !.version_id = newest.id,
                                   !.version_number = newest.version_number,
                                   !.file = newest.files[1]]]

UpdateOneStoppingAtFailure(data, force, c, pub, errVer) ==
    LET pid == data.project_id
        newest == find_best_version(VersionList(pid, pub), c.minecraft_version, c.loader)
    IN IF errVer # NoPid THEN [result |-> "failed", data |-> data]
       ELSE IF newest = NoVersion THEN [result |-> "failed", data |-> data]
       ELSE IF newest.id = data.version_id /\ ~force
       THEN [result |-> "skipped", data |-> data]
       ELSE [result |-> "updated",
             data |-> [data EXCEPT !.version_id = newest.id,
                                   !.version_number = newest.version_number,
                                   !.file = newest.files[1],
                                   !.dependencies = RequiredDeps(newest.dependencies)]]

\* what the loop body does to one record: "failed", "skipped" or "updated",
\* and the record it leaves
UpdateOne(data, force, c, pub, errVer) ==
    LET pid == data.project_id
        newest == find_best_version(VersionList(pid, pub), c.minecraft_version, c.loader)
    IN IF errVer = pid THEN [result |-> "failed", data |-> data]
       ELSE IF newest = NoVersion THEN [result |-> "failed", data |-> data]
       ELSE IF newest.id = data.version_id /\ ~force
       THEN [result |-> "skipped", data |-> data]
       ELSE [result |-> "updated",
             data |-> [data EXCEPT !.version_id = newest.id,
                                   !.version_number = newest.version_number,
                                   !.file = newest.files[1],
                                   !.dependencies = RequiredDeps(newest.dependencies)]]

update_all_then_prune(force, fs, c, pub, errVer) ==
    LET one(d, sl) == UpdateOne(fs[d][sl], force, c, pub, errVer)
        with(result) == {x \in UpdateDirs \X Slugs :
                            Exists(fs, x[1], x[2]) /\ one(x[1], x[2]).result = result}
    IN [files |-> prune_unused_deps(
                     [d \in Dirs |-> [sl \in Slugs |->
                        IF d \in UpdateDirs /\ Exists(fs, d, sl)
                        THEN one(d, sl).data ELSE fs[d][sl]]]).files,
        updated |-> with("updated"),
        skipped |-> with("skipped"),
        failed |-> with("failed")]

update_all_installing_dependencies(force, fs, c, pub, errVer) ==
    LET one(d, sl) == UpdateOne(fs[d][sl], force, c, pub, errVer)
        with(result) == {x \in UpdateDirs \X Slugs :
                            Exists(fs, x[1], x[2]) /\ one(x[1], x[2]).result = result}
        owner(d, sl) ==
            {x \in with("updated") :
                \E k \in 1..Len(one(x[1], x[2]).data.dependencies) :
                   LET dep == Project(one(x[1], x[2]).data.dependencies[k])
                   IN dep.slug = sl /\ TargetDir(dep.project_type) = d}
    IN [files |-> [d \in Dirs |-> [sl \in Slugs |->
                     IF d \in UpdateDirs /\ Exists(fs, d, sl)
                     THEN one(d, sl).data
                     ELSE IF ~Exists(fs, d, sl) /\ owner(d, sl) # {}
                     THEN LET y == CHOOSE x \in owner(d, sl) : TRUE
                          IN [one(y[1], y[2]).data
                                EXCEPT !.slug = sl, !.explicit = FALSE]
                     ELSE fs[d][sl]]],
        updated |-> with("updated"),
        skipped |-> with("skipped"),
        failed |-> with("failed")]

update_all(force, fs, c, pub, errVer) ==
    LET one(d, sl) == UpdateOne(fs[d][sl], force, c, pub, errVer)
        with(result) == {x \in UpdateDirs \X Slugs :
                            Exists(fs, x[1], x[2]) /\ one(x[1], x[2]).result = result}
    IN [files |-> [d \in Dirs |-> [sl \in Slugs |->
                     IF d \in UpdateDirs /\ Exists(fs, d, sl)
                     THEN one(d, sl).data ELSE fs[d][sl]]],
        updated |-> with("updated"),
        skipped |-> with("skipped"),
        failed |-> with("failed")]

(***************************************************************************)
(* commands.py: check                                                      *)
(***************************************************************************)
\* the directories whose records check visits
CheckDirs == {MODS}

\* the loader test of check's scan
CheckLoaderOk(v, loader) ==
    \/ v.loaders = {}
    \/ loader \in v.loaders
    \/ "minecraft" \in v.loaders

\* compatible = any(... for v in versions)
CheckCompatible(versions, target_mc, loader) ==
    \E i \in 1..Len(versions) :
        /\ mc_version_matches(target_mc, versions[i].game_versions)
        /\ CheckLoaderOk(versions[i], loader)

CheckIncompatible(fs, target_mc, loader, pub) ==
    {fs[x[1]][x[2]].slug : x \in
        {y \in CheckDirs \X Slugs :
            /\ Exists(fs, y[1], y[2])
            /\ ~CheckCompatible(VersionList(fs[y[1]][y[2]].project_id, pub),
                                target_mc, loader)}}

\* the version request of one of the scanned records fails
CheckFails(fs, errVer) ==
    \E d \in CheckDirs : \E sl \in Glob(fs, d) : fs[d][sl].project_id = errVer

\* lines 182-210, rt being what resolve_target_mc returned or raised; the
\* result carries the store and the configuration the command leaves
check_scan(rt, fs, c, pub, env) ==
    IF rt.status # "ok"
    THEN [status |-> rt.status, target |-> <<>>, incompatible |-> {},
          files |-> fs, cfg |-> c]
    ELSE IF CheckFails(fs, env.errVer)
    THEN [status |-> "error", target |-> rt.version, incompatible |-> {},
          files |-> fs, cfg |-> c]
    ELSE [status |-> "ok", target |-> rt.version,
          incompatible |-> CheckIncompatible(fs, rt.version, c.loader, pub),
          files |-> fs, cfg |-> c]

check_saving_target(user_arg, fs, c, pub, env) ==
    [check_scan(resolve_target_mc(user_arg, Releases(pub), env.tagsDown),
                fs, c, pub, env)
       EXCEPT !.cfg = [c EXCEPT !.minecraft_version = user_arg]]

check(user_arg, fs, c, pub, env) ==
    check_scan(resolve_target_mc(user_arg, Releases(pub), env.tagsDown),
               fs, c, pub, env)

(***************************************************************************)
(* The commands as actions.  `last` keeps what the command was given, the  *)
(* store and configuration it started from, and everything it reported.    *)
(***************************************************************************)
Blank ==
    [op |-> "none", ident |-> <<>>, lines |-> <<>>, slug |-> "", target |-> <<>>,
     force |-> FALSE, explicit |-> FALSE, env |-> Quiet,
     pre |-> EmptyStore, precfg |-> [minecraft_version |-> <<>>, loader |-> "",
                                     loader_version |-> ""],
     status |-> "ok", outcome |-> "", visited |-> {},
     requests |-> <<>>, writes |-> <<>>, errs |-> <<>>,
     installed_any |-> <<>>, failed |-> <<>>,
     before |-> CallState(EmptyStore, {}),
     removed |-> {}, reported |-> {}, updated |-> {}, skipped |-> {},
     arg |-> <<>>, net |-> UEnv(FALSE, FALSE, NoPid)]

\* no command is running: the previous process has exited
Idle == last = Blank

Started(op) == [Blank EXCEPT !.op = op, !.pre = files, !.precfg = cfg]

\* identifiers the operator types: slugs, ids, a project URL, an unknown
\* name with search hits and one without
Idents == {<<"a">>, <<"b">>, <<"r">>, <<"d">>, <<"s">>, <<"m">>, <<"pB">>,
           <<"https:", "", "modrinth.com", "mod", "d", "">>, <<"zz">>, <<"qq">>}

\* azalea add <mod>: install_mod(identifier) with a fresh `installed` set
Install(identifier, env) ==
    /\ Idle
    /\ \E r \in {install_mod(identifier, CallState(files, {}), TRUE, cfg, env)} :
          /\ files' = r.files
          /\ last' = [Started("install") EXCEPT
                        !.ident = identifier, !.explicit = TRUE, !.env = env,
                        !.status = r.status,
                        !.visited = r.visited, !.requests = r.requests,
                        !.writes = r.writes, !.errs = r.errs]
          /\ UNCHANGED <<cfg, published>>

BatchLines == {<<"a">>, <<"b">>, <<"s">>, <<"m">>, <<"qq">>, BlankLine, CommentLine}

\* the registry answers every request of a batch; a batch line fails by
\* naming no project (transport errors are Install's)
BatchEnvs == {Quiet}

RECURSIVE SeqsUpTo(_, _)
SeqsUpTo(S, n) ==
    IF n = 0 THEN {<<>>}
    ELSE SeqsUpTo(S, n - 1) \cup
         {Append(q, x) : q \in {t \in SeqsUpTo(S, n - 1) : Len(t) = n - 1}, x \in S}

InstallFromFile(lines, env) ==
    /\ Idle
    /\ \E b \in {install_from_file(lines, files, cfg, env)} :
          /\ files' = b.s.files
          /\ last' = [Started("install_from_file") EXCEPT
                        !.lines = lines, !.explicit = TRUE, !.env = env,
                        !.visited = b.s.visited, !.requests = b.s.requests,
                        !.writes = b.s.writes, !.errs = b.s.errs,
                        !.installed_any = b.installed_any, !.failed = b.failed,
                        !.before = b.before]
          /\ UNCHANGED <<cfg, published>>

\* if not p.exists(): log_err(...); return
InstallFromMissingFile ==
    /\ Idle
    /\ last' = [Started("install_from_file") EXCEPT !.outcome = "file not found"]
    /\ UNCHANGED <<cfg, files, published>>

Remove(slug) ==
    /\ Idle
    /\ \E r \in {remove_mod(slug, files)} :
          /\ files' = r.files
          /\ last' = [Started("remove") EXCEPT
                        !.slug = slug, !.removed = r.removed,
                        !.outcome = IF r.not_installed THEN "not installed" ELSE "removed"]
          /\ UNCHANGED <<cfg, published>>

Prune ==
    /\ Idle
    /\ \E r \in {prune_unused_deps(files)} :
          /\ files' = r.files
          /\ last' = [Started("prune") EXCEPT !.removed = r.removed]
          /\ UNCHANGED <<cfg, published>>

UpdateAll(force, errVer) ==
    /\ Idle
    /\ \E r \in {update_all(force, files, cfg, published, errVer)} :
          /\ files' = r.files
          /\ last' = [Started("update_all") EXCEPT
                        !.force = force,
                        !.env = Env(NoPid, errVer, 0),
                        !.updated = {files[x[1]][x[2]].slug : x \in r.updated},
                        !.skipped = {files[x[1]][x[2]].slug : x \in r.skipped},
                        !.reported = {files[x[1]][x[2]].slug : x \in r.failed}]
          /\ UNCHANGED <<cfg, published>>

UpgradeArgs == {<<>>, LatestWord, <<"L", "a", "t", "e", "s", "t">>, V11, V12, V13, V1x,
                <<"1", ".">>}

Upgrade(target_mc_arg, env) ==
    /\ Idle
    /\ \E r \in {upgrade(target_mc_arg, files, cfg, published, env)} :
          /\ cfg' = r.cfg
          /\ last' = [Started("upgrade") EXCEPT
                        !.arg = target_mc_arg, !.net = env,
                        !.target = r.target, !.status = r.status,
                        !.outcome = r.outcome, !.reported = r.incompatible]
          /\ files' = r.files
          /\ UNCHANGED published

CheckArgs == {LatestWord, V11, V12, V13}

CheckEnvs == {UEnv(FALSE, FALSE, NoPid), UEnv(TRUE, FALSE, NoPid),
              UEnv(FALSE, FALSE, "pB")}

\* azalea check <mc>
Check(user_arg, env) ==
    /\ Idle
    /\ \E r \in {check(user_arg, files, cfg, published, env)} :
          /\ files' = r.files
          /\ cfg' = r.cfg
          /\ last' = [Started("check") EXCEPT
                        !.arg = user_arg, !.net = env,
                        !.target = r.target, !.status = r.status,
                        !.reported = r.incompatible,
                        !.outcome = IF r.status # "ok" THEN "failed"
                                    ELSE IF r.incompatible = {} THEN "all supported"
                                    ELSE "incompatible"]
          /\ UNCHANGED published

\* the registry publishes its second round: new versions and a new release
Publish ==
    /\ Idle
    /\ ~published
    /\ published' = TRUE
    /\ UNCHANGED <<cfg, files, last>>

\* the process exits; what it reported is gone
Exit ==
    /\ ~Idle
    /\ last' = Blank
    /\ UNCHANGED <<cfg, files, published>>

\* the state `azalea init` leaves: latest release, fabric, the loader build
\* that could be resolved for it
InitMain ==
    /\ published = FALSE
    /\ cfg = [minecraft_version |-> get_latest_release_version(Releases(FALSE), FALSE),
              loader |-> "fabric",
              loader_version |-> get_latest_fabric_loader(V11, FALSE)]
    /\ files = EmptyStore
    /\ last = Blank

IdleMatch == mTarget = <<>> /\ mSupported = <<>> /\ mResult = FALSE
IdleSelect == candidates = <<>> /\ selMc = <<>> /\ selLoader = "" /\ selected = NoVersion

Init == InitMain /\ IdleMatch /\ IdleSelect

\* a command starts when no command is running, so Idle is tested before
\* the command's inputs are drawn
Next ==
    \/ Idle /\ \E i \in Idents, e \in Envs :
                  Install(i, e) /\ UNCHANGED <<matchVars, selVars>>
    \/ Idle /\ \E ls \in SeqsUpTo(BatchLines, MaxBatch), e \in BatchEnvs :
                  InstallFromFile(ls, e) /\ UNCHANGED <<matchVars, selVars>>
    \/ InstallFromMissingFile /\ UNCHANGED <<matchVars, selVars>>
    \/ Idle /\ \E sl \in Slugs \cup {"zz"} :
                  Remove(sl) /\ UNCHANGED <<matchVars, selVars>>
    \/ Prune /\ UNCHANGED <<matchVars, selVars>>
    \/ Idle /\ \E f \in BOOLEAN, e \in {NoPid, "pB"} :
                  UpdateAll(f, e) /\ UNCHANGED <<matchVars, selVars>>
    \/ Idle /\ \E t \in UpgradeArgs, e \in UEnvs :
                  Upgrade(t, e) /\ UNCHANGED <<matchVars, selVars>>
    \/ Idle /\ \E t \in CheckArgs, e \in CheckEnvs :
                  Check(t, e) /\ UNCHANGED <<matchVars, selVars>>
    \/ Publish /\ UNCHANGED <<matchVars, selVars>>
    \/ Exit /\ UNCHANGED <<matchVars, selVars>>

Spec == Init /\ [][Next]_vars

(***************************************************************************)
(* install_mod and install_from_file on their own: packs initialised       *)
(* before or after the second release, projects of every type, and         *)
(* batches whose lines fail in every way a line can fail.                  *)
(***************************************************************************)
InitInstall ==
    /\ published \in BOOLEAN
    /\ cfg = [minecraft_version |->
                  get_latest_release_version(Releases(published), FALSE),
              loader |-> "fabric",
              loader_version |->
                  get_latest_fabric_loader(
                      get_latest_release_version(Releases(published), FALSE), FALSE)]
    /\ files = EmptyStore
    /\ last = Blank
    /\ IdleMatch /\ IdleSelect

\* one identifier per project type, and one that is searched for
TypedIdents == {<<"a">>, <<"r">>, <<"s">>, <<"k">>, <<"m">>, <<"zz">>}

\* lines naming a project (two that require each other, one that requires
\* itself), an unknown name with search hits, an unknown name without, and
\* an empty line
FailingLines == {<<"a">>, <<"b">>, <<"k">>, <<"zz">>, <<"qq">>, BlankLine}

NextInstall ==
    \/ Idle /\ \E i \in TypedIdents, e \in Envs :
                  Install(i, e) /\ UNCHANGED <<matchVars, selVars>>
    \/ Idle /\ \E ls \in SeqsUpTo(FailingLines, MaxBatch), e \in Envs :
                  InstallFromFile(ls, e) /\ UNCHANGED <<matchVars, selVars>>
    \/ Publish /\ UNCHANGED <<matchVars, selVars>>
    \/ Exit /\ UNCHANGED <<matchVars, selVars>>

SpecInstall == InitInstall /\ [][NextInstall]_vars

(***************************************************************************)
(* upgrade and check on their own: packs holding projects of every type,   *)
(* built by `add` with the registry answering, then upgraded or checked    *)
(* with every kind of argument.                                            *)
(***************************************************************************)
NextUpgrade ==
    \/ Idle /\ \E i \in TypedIdents :
                  Install(i, Quiet) /\ UNCHANGED <<matchVars, selVars>>
    \/ Idle /\ \E t \in UpgradeArgs, e \in UEnvs :
                  Upgrade(t, e) /\ UNCHANGED <<matchVars, selVars>>
    \/ Idle /\ \E t \in UpgradeArgs \ {<<>>}, e \in UEnvs :
                  Check(t, e) /\ UNCHANGED <<matchVars, selVars>>
    \/ Publish /\ UNCHANGED <<matchVars, selVars>>
    \/ Exit /\ UNCHANGED <<matchVars, selVars>>

SpecUpgrade == InitInstall /\ [][NextUpgrade]_vars

(***************************************************************************)
(* mc_version_matches on its own: every target against every one-entry    *)
(* supported list, over all strings up to MaxStrLen.                       *)
(***************************************************************************)
InitMatch ==
    /\ InitMain /\ IdleSelect
    /\ mTarget \in Strings
    /\ mSupported = <<>>
    /\ mResult = mc_version_matches(mTarget, <<>>)

MatchCall(v) ==
    /\ mSupported = <<>>
    /\ mSupported' = <<v>>
    /\ mResult' = mc_version_matches(mTarget, <<v>>)
    /\ UNCHANGED <<mTarget, mainVars, selVars>>

NextMatch == mSupported = <<>> /\ \E v \in Strings : MatchCall(v)

SpecMatch == InitMatch /\ [][NextMatch]_vars

\* calls with longer lists, the entries taken from a few versions
MoreVersions == {V11, V1x, <<"1">>}

MatchMore(v) ==
    /\ mSupported' = Append(mSupported, v)
    /\ mResult' = mc_version_matches(mTarget, mSupported')
    /\ UNCHANGED <<mTarget, mainVars, selVars>>

NextMatchMany ==
    \/ NextMatch
    \/ /\ Len(mSupported) \in 1..(MaxCandidates - 1)
       /\ \A i \in 1..Len(mSupported) : mSupported[i] \in MoreVersions
       /\ \E v \in MoreVersions : MatchMore(v)

SpecMatchMany == InitMatch /\ [][NextMatchMany]_vars

(***************************************************************************)
(* find_best_version on its own: candidate lists built one version at a    *)
(* time, for a few targets and loaders.                                    *)
(***************************************************************************)
GameVersionLists == {<<>>, <<V11>>, <<V12>>, <<V1x>>, <<V12, V11>>}

LoaderSets == {{}, {"fabric"}, {"forge"}, {"minecraft"}, {"datapack"}, {"iris"},
               {"optifine"}, {"forge", "quilt"}}

InitSelect ==
    /\ InitMain /\ IdleMatch
    /\ candidates = <<>>
    /\ selMc \in {V11, V12, <<"1", ".", "1", ".", "x">>}
    /\ selLoader \in {"fabric", "forge"}
    /\ selected = find_best_version(<<>>, selMc, selLoader)

\* the registry's version ids are unique: a candidate is named by its place
CandidateId(n) == [place |-> n]

SelectAppend(gvs, loaders) ==
    /\ Len(candidates) < MaxCandidates
    /\ candidates' = Append(candidates,
                            Ver(CandidateId(Len(candidates) + 1), gvs, loaders, <<>>))
    /\ selected' = find_best_version(candidates', selMc, selLoader)
    /\ UNCHANGED <<selMc, selLoader, mainVars, matchVars>>

NextSelect == \E g \in GameVersionLists, l \in LoaderSets : SelectAppend(g, l)

SpecSelect == InitSelect /\ [][NextSelect]_vars

(***************************************************************************)
(* Vocabulary of the properties                                            *)
(***************************************************************************)
\* the records of a store, each named by <<directory, slug>>
Keys(fs) == {x \in Dirs \X Slugs : Exists(fs, x[1], x[2])}

At(fs, x) == fs[x[1]][x[2]]

SeqRange(q) == {q[i] : i \in 1..Len(q)}

\* the reachability set of the data model: the closure of `dependencies`
\* from every explicit record, whatever its directory
RECURSIVE DepClosure(_, _)
DepClosure(fs, S) ==
    LET next == UNION {SeqRange(At(fs, x).dependencies) :
                        x \in {y \in Keys(fs) : At(fs, y).project_id \in S}}
    IN IF next \subseteq S THEN S ELSE DepClosure(fs, S \cup next)

Reachable(fs) ==
    DepClosure(fs, {At(fs, x).project_id : x \in {y \in Keys(fs) : At(fs, y).explicit}})

Unneeded(fs) == {x \in Keys(fs) : At(fs, x).project_id \notin Reachable(fs)}

SlugsAt(fs, K) == {At(fs, x).slug : x \in K}

(***************************************************************************)
(* C1.  For any install graph, prune deletes exactly the records whose     *)
(* project_id is outside the closure of `dependencies` from the explicit   *)
(* records of every directory, returns exactly their slugs, and deletes    *)
(* nothing when every record is explicit or reachable.                     *)
(***************************************************************************)
C1_PruneRemovesExactlyUnreachable ==
    last.op = "prune" =>
        /\ \A x \in Dirs \X Slugs :
              At(files, x) = IF x \in Unneeded(last.pre) THEN NoFile ELSE At(last.pre, x)
        /\ last.removed = SlugsAt(last.pre, Unneeded(last.pre))

(***************************************************************************)
(* C2.  Across install, installFromFile, updateAll and upgrade, also over  *)
(* separate invocations, a record whose explicit flag is true never has    *)
(* the flag changed to false while the record exists.                      *)
(***************************************************************************)
C2_ExplicitNeverCleared ==
    last.op \in {"install", "install_from_file", "update_all", "upgrade"} =>
        \A x \in Keys(last.pre) :
            (At(last.pre, x).explicit /\ Exists(files, x[1], x[2]))
                => At(files, x).explicit

(***************************************************************************)
(* C3.  If a record of any directory has no version compatible with the    *)
(* resolved target, upgrade reports the offending slugs and persists       *)
(* nothing: configuration and records are as before the call.              *)
(***************************************************************************)
IncompatibleWith(fs, target_mc) ==
    {x \in Keys(fs) :
        ~ScanCompatible(VersionList(At(fs, x).project_id, published), target_mc, cfg.loader)}

C3_UpgradeAllOrNothing ==
    (/\ last.op = "upgrade"
     /\ last.status = "ok"
     /\ last.target # <<>>
     /\ last.target # last.precfg.minecraft_version
     /\ IncompatibleWith(last.pre, last.target) # {})
    => /\ cfg = last.precfg
       /\ files = last.pre
       /\ last.reported = SlugsAt(last.pre, IncompatibleWith(last.pre, last.target))

(***************************************************************************)
(* C9.  For a record of any directory, remove(slug) deletes the record and *)
(* then prunes: afterwards the named record is absent, every remaining     *)
(* record is explicit or reachable from an explicit one, and the slugs the *)
(* prune step deleted are reported.                                        *)
(***************************************************************************)
C9_RemoveThenPrune ==
    (last.op = "remove" /\ \E d \in Dirs : Exists(last.pre, d, last.slug))
    => /\ \A d \in Dirs : ~Exists(files, d, last.slug)
       /\ Unneeded(files) = {}
       /\ last.removed =
            SlugsAt(last.pre, {x \in Keys(last.pre) :
                                  x[2] # last.slug /\ ~Exists(files, x[1], x[2])})

(***************************************************************************)
(* C10.  remove(slug) reports "not installed" only when no record with     *)
(* that slug exists in any directory; it then changes neither the records  *)
(* nor the configuration.                                                  *)
(***************************************************************************)
C10_NotInstalledOnlyWhenAbsent ==
    (last.op = "remove" /\ last.outcome = "not installed")
    => /\ \A d \in Dirs : ~Exists(last.pre, d, last.slug)
       /\ files = last.pre
       /\ cfg = last.precfg

(***************************************************************************)
(* C4 as stated.  Installing the same explicit identifier twice in one     *)
(* process with a shared visited set performs exactly one network          *)
(* resolution and one persisted write.                                     *)
(***************************************************************************)
Lookups(key) ==
    Cardinality({i \in 1..Len(last.requests) :
        last.requests[i].kind = "project" /\ last.requests[i].key = key})

Fetches(pid) ==
    Cardinality({i \in 1..Len(last.requests) :
        last.requests[i].kind = "versions" /\ last.requests[i].key = pid})

Writes(slug, kinds) ==
    Cardinality({i \in 1..Len(last.writes) :
        last.writes[i].slug = slug /\ last.writes[i].kind \in kinds})

ImplicitInstalls(slug) ==
    Cardinality({i \in 1..Len(last.writes) :
        /\ last.writes[i].slug = slug
        /\ last.writes[i].kind = "install"
        /\ ~last.writes[i].explicit})

\* a batch whose lines i < j carry the same identifier, every line succeeding
Twice(i, j) ==
    /\ last.op = "install_from_file"
    /\ last.failed = <<>>
    /\ i \in 1..Len(last.lines) /\ j \in 1..Len(last.lines) /\ i < j
    /\ last.lines[i] = last.lines[j]
    /\ ~Skipped(last.lines[i])

C5_PromotionOnlySetsExplicit ==
    /\ (last.op = "install_from_file" /\ last.lines # <<>>) =>
          LET y == last.lines[Len(last.lines)]
              r == resolve_project(y, last.env)
              slug == r.proj.slug
              dir == TargetDir(r.proj.project_type)
              b == last.before
              old == b.files[dir][slug]
          IN (/\ ~Skipped(y)
              /\ r.status = "ok"
              /\ r.proj.project_type # "modpack"
              /\ slug \in b.visited)
             => /\ files = IF old # NoFile /\ ~old.explicit
                           THEN [b.files EXCEPT ![dir][slug] =
                                    [old EXCEPT !.explicit = TRUE]]
                           ELSE b.files
                /\ Len(last.writes) = Len(b.writes)
                                      + IF old # NoFile /\ ~old.explicit THEN 1 ELSE 0
                /\ last.requests = b.requests \o r.requests
                /\ \A k \in 1..Len(r.requests) : r.requests[k].kind # "versions"
                /\ last.visited = b.visited
    \* one `add`: every call below the first is a dependency call
    /\ last.op = "install" =>
          \A k \in 1..Len(last.writes) :
              /\ last.writes[k].kind = "install"
              /\ \A n \in 1..Len(last.writes) :
                    last.writes[n].slug = last.writes[k].slug => n = k

C5_Witness ==
    /\ last.op = "install_from_file"
    /\ Len(last.lines) = 2
    /\ last.lines[2] = <<"b">>
    /\ \E k \in 1..Len(last.writes) :
          last.writes[k].kind = "promote" /\ last.writes[k].slug = "b"
    /\ last.pre[MODS]["b"] = NoFile
    /\ files[MODS]["b"].explicit

(***************************************************************************)
(* C6.  After any sequence of install, installFromFile, remove, prune and  *)
(* updateAll, no two records, in the same or in different directories,     *)
(* have the same project_id.                                               *)
(***************************************************************************)
C6_OneRecordPerProject ==
    \A x, y \in Keys(files) :
        At(files, x).project_id = At(files, y).project_id => x = y

C6_Witness ==
    /\ last.op = "update_all"
    /\ Exists(files, RESOURCEPACKS, "r")
    /\ Exists(files, MODS, "d")
    /\ Cardinality(Keys(files)) >= 4

(***************************************************************************)
(* C7.  For every ordered candidate list, target and requested loader,     *)
(* selectVersion returns the earliest candidate, in input order, that      *)
(* passes both the game-version match and the loader constraint (no        *)
(* loaders declared, the requested loader, a universal marker "minecraft"  *)
(* or "datapack", or a shader alias "iris" or "optifine"); it returns no   *)
(* candidate that fails the match, and NONE exactly when none passes.      *)
(***************************************************************************)
GameVersionOk(c) ==
    \E i \in 1..Len(c.game_versions) : MatchOne(selMc, c.game_versions[i])

LoaderConstraint(c) ==
    \/ c.loaders = {}
    \/ selLoader \in c.loaders
    \/ c.loaders \cap {"minecraft", "datapack"} # {}
    \/ c.loaders \cap {"iris", "optifine"} # {}

Passing == {i \in 1..Len(candidates) :
              GameVersionOk(candidates[i]) /\ LoaderConstraint(candidates[i])}

C7_SelectsEarliestMatch ==
    /\ Passing = {} <=> selected = NoVersion
    /\ Passing # {} =>
          /\ selected = candidates[CHOOSE i \in Passing : \A k \in Passing : i <= k]
          /\ GameVersionOk(selected)

C7_Witness ==
    /\ Len(candidates) = 2
    /\ Cardinality(Passing) = 2
    /\ selected = candidates[1]
    /\ candidates[1].loaders = {"iris"}
    /\ selLoader = "fabric"

(***************************************************************************)
(* C8 as stated.  For all strings v and every wildcard p.x,                *)
(* matches(p.x, {v}) holds if and only if v == p or v starts with p + ".", *)
(* and the same for matches(v, {p.x}).                                     *)
(***************************************************************************)
\* v lies under the wildcard w = p.x
Under(v, w) ==
    v = DropLast2(w) \/ startswith(v, DropLast2(w) \o <<".">>)

Called == mSupported # <<>>

C8_WildcardIffPrefix ==
    Called =>
        /\ endswith(mTarget, DotX) => (mResult <=> Under(mSupported[1], mTarget))
        /\ endswith(mSupported[1], DotX) => (mResult <=> Under(mTarget, mSupported[1]))

(***************************************************************************)
(* C8 amended.  For all strings v and every wildcard p.x,                  *)
(* matches(p.x, {v}) holds if and only if v == p, or v starts with         *)
(* p + ".", or v is itself a wildcard q.x and p.x == q or p.x starts with  *)
(* q + "."; and the same for matches(v, {p.x}).  For a v that is not a     *)
(* wildcard this is the stated equivalence.                                *)
(***************************************************************************)
C8_WildcardEitherSide ==
    Called =>
        LET v == mSupported[1]
            either == \/ endswith(mTarget, DotX) /\ Under(v, mTarget)
                      \/ endswith(v, DotX) /\ Under(mTarget, v)
        IN /\ (endswith(mTarget, DotX) \/ endswith(v, DotX)) => (mResult <=> either)
           /\ (endswith(mTarget, DotX) /\ ~endswith(v, DotX))
                 => (mResult <=> Under(v, mTarget))
           /\ (endswith(v, DotX) /\ ~endswith(mTarget, DotX))
                 => (mResult <=> Under(mTarget, v))

C8_Witness ==
    /\ Called
    /\ mTarget = <<"1", ".", "1", ".", "x">>
    /\ mSupported = <<V1x>>
    /\ mResult
    /\ ~Under(V1x, mTarget)

(***************************************************************************)
(* C15.  check(targetVersion) reports the slug of a record, in any         *)
(* directory, if and only if no version of its refetched version list      *)
(* passes the game-version and loader filter of find_best_version for      *)
(* targetVersion and the configured loader: a record is reported exactly   *)
(* when find_best_version for that target would return None.               *)
(***************************************************************************)
SelectsNone(fs, target_mc) ==
    {x \in Keys(fs) :
        find_best_version(VersionList(At(fs, x).project_id, published),
                          target_mc, cfg.loader) = NoVersion}

C15_CheckReportsExactlyUnselectable ==
    (last.op = "check" /\ last.status = "ok")
    => last.reported = SlugsAt(last.pre, SelectsNone(last.pre, last.target))

(***************************************************************************)
(* C16.  check is a pure read: whether it reports incompatible records or  *)
(* none, the configuration and every record are the same after the call    *)
(* as before it, and reported incompatibilities do not fail the process.   *)
(***************************************************************************)
C16_CheckIsPureRead ==
    last.op = "check" =>
        /\ files = last.pre
        /\ cfg = last.precfg
        /\ last.reported # {} => last.status = "ok"
        /\ last.status = "ok" =>
              last.outcome = IF last.reported = {} THEN "all supported"
                             ELSE "incompatible"

C16_Witness ==
    /\ last.op = "check"
    /\ last.status = "ok"
    /\ last.reported # {}
    /\ last.target # last.precfg.minecraft_version
    /\ files = last.pre
    /\ Cardinality(Keys(files)) >= 2

(***************************************************************************)
(* C13.  For every record of every directory, update_all(force) selects a  *)
(* version again for the current configuration; when the selected id       *)
(* equals the recorded version_id and force is false the record is left    *)
(* unchanged, otherwise version_id, version_number, file and dependencies  *)
(* become those of the selected version while project_id, slug, side and   *)
(* explicit keep their values.                                             *)
(***************************************************************************)
\* what find_best_version selects now for the record at x
Newest(fs, x) ==
    find_best_version(VersionList(At(fs, x).project_id, published),
                      cfg.minecraft_version, cfg.loader)

\* the version request of the record at x fails, or nothing is compatible
CannotUpdate(fs, x) ==
    \/ last.env.errVer = At(fs, x).project_id
    \/ Newest(fs, x) = NoVersion

C13_UpdateReselectsEveryRecord ==
    last.op = "update_all" =>
        /\ Keys(files) = Keys(last.pre)
        /\ \A x \in Keys(last.pre) :
              ~CannotUpdate(last.pre, x) =>
                 IF Newest(last.pre, x).id = At(last.pre, x).version_id /\ ~last.force
                 THEN /\ At(files, x) = At(last.pre, x)
                      /\ x[2] \in last.skipped \ last.updated
                 ELSE /\ At(files, x).version_id = Newest(last.pre, x).id
                      /\ At(files, x).version_number = Newest(last.pre, x).version_number
                      /\ At(files, x).file = Newest(last.pre, x).files[1]
                      /\ At(files, x).dependencies =
                            RequiredDeps(Newest(last.pre, x).dependencies)
                      /\ At(files, x).project_id = At(last.pre, x).project_id
                      /\ At(files, x).slug = At(last.pre, x).slug
                      /\ At(files, x).side = At(last.pre, x).side
                      /\ At(files, x).explicit = At(last.pre, x).explicit
                      /\ x[2] \in last.updated \ last.skipped

C13_Witness ==
    /\ last.op = "update_all"
    /\ ~last.force
    /\ \E x \in Keys(last.pre) :
          /\ x[1] = MODS
          /\ At(files, x).version_id # At(last.pre, x).version_id
          /\ At(files, x).dependencies # At(last.pre, x).dependencies
          /\ ~At(files, x).explicit
    /\ \E y \in Keys(last.pre) :
          /\ y[1] = RESOURCEPACKS
          /\ y[2] \in last.skipped
          /\ At(files, y).explicit

(***************************************************************************)
(* C14.  In update_all, a failed version request or the absence of a       *)
(* compatible version for one record leaves that record unchanged, is      *)
(* reported as failed, and keeps no other record of any directory from     *)
(* being processed.                                                        *)
(***************************************************************************)
C14_UpdateFailureIsPerRecord ==
    last.op = "update_all" =>
        /\ \A x \in Keys(last.pre) :
              CannotUpdate(last.pre, x) <=> x[2] \in last.reported
        /\ \A x \in Keys(last.pre) :
              CannotUpdate(last.pre, x) => At(files, x) = At(last.pre, x)
        /\ \A x \in Keys(last.pre) :
              x[2] \in (last.updated \cup last.skipped \cup last.reported)
        /\ last.status = "ok"

C14_Witness ==
    /\ last.op = "update_all"
    /\ \E x \in Keys(last.pre) :
          /\ Newest(last.pre, x) = NoVersion
          /\ x[2] \in last.reported
          /\ At(files, x) = At(last.pre, x)
    /\ \E y \in Keys(last.pre) :
          /\ last.env.errVer = At(last.pre, y).project_id
          /\ y[2] \in last.reported
    /\ \E z \in Keys(last.pre) :
          /\ z[2] \in last.updated
          /\ At(files, z).version_id # At(last.pre, z).version_id

(***************************************************************************)
(* C19.  resolve_project first looks the slug or id up directly; only when *)
(* the registry answers "not found" does it search, let the operator       *)
(* choose and look the chosen project up by id; it exits with "No project  *)
(* selected" only after the search had no hits or the operator cancelled;  *)
(* any other error of the direct lookup reaches the caller and no search   *)
(* is made.                                                                *)
(***************************************************************************)
\* the registry knows a project under this slug or id
Known(key) ==
    {p \in Pids \ {last.env.gone} : Project(p).id = key \/ Project(p).slug = key}

\* the positions of the search requests of the last command
Searched == {i \in 1..Len(last.requests) : last.requests[i].kind = "search"}

\* the operator picks one of the hits
Picks(hits) == hits # <<>> /\ last.env.choice \in 1..Len(hits)

C19_SearchOnlyAfterNotFound ==
    last.op = "install" =>
        LET slug == SlugOfInput(last.ident)
            reqs == last.requests
            hits == SearchHits(slug)
        IN /\ reqs # <<>>
           /\ reqs[1] = [kind |-> "project", key |-> slug]
           /\ (2 \in Searched) = (Known(slug) = {})
           /\ \A i \in Searched :
                 /\ i >= 2
                 /\ reqs[i - 1] = [kind |-> "project", key |-> reqs[i].key]
                 /\ Known(reqs[i].key) = {}
           /\ 2 \in Searched =>
                 /\ reqs[2].key = slug
                 /\ IF Picks(hits)
                    THEN /\ Len(reqs) >= 3
                         /\ reqs[3] = [kind |-> "project",
                                       key |-> hits[last.env.choice].project_id]
                         /\ last.status # "exit"
                    ELSE /\ Len(reqs) = 2
                         /\ last.status = "exit"
                         /\ files = last.pre
           /\ last.status = "exit" =>
                 /\ Len(reqs) \in Searched
                 /\ ~Picks(SearchHits(reqs[Len(reqs)].key))
           /\ last.env.errProj \in Known(slug) =>
                 /\ last.status = "error"
                 /\ Len(reqs) = 1
                 /\ files = last.pre

C19_Witness ==
    /\ last.op = "install"
    /\ Searched = {2}
    /\ last.env.choice = 1
    /\ last.status = "ok"
    /\ Len(last.requests) >= 4
    /\ last.requests[3].key = "pD"
    /\ Exists(files, MODS, "d")
    /\ ~Exists(last.pre, MODS, "d")

(***************************************************************************)
(* C17.  When the resolved project's type is "modpack", install reports    *)
(* the failure and persists nothing: no record is created or modified, the *)
(* slug is not added to the visited set, no version list is requested,     *)
(* and in a batch the remaining lines are still processed.                 *)
(***************************************************************************)
\* the identifier resolves, under the command's outside world, to a modpack
IsModpack(identifier) ==
    /\ ~Skipped(identifier)
    /\ resolve_project(identifier, last.env).status = "ok"
    /\ resolve_project(identifier, last.env).proj.project_type = "modpack"

ModpackOf(identifier) == resolve_project(identifier, last.env).proj

\* the lines of the last batch that are attempted
Attempted == {i \in 1..Len(last.lines) : ~Skipped(last.lines[i])}

\* what a modpack leaves behind in the last command
NothingOf(proj) ==
    /\ proj.slug \notin last.visited
    /\ Fetches(proj.id) = 0
    /\ Writes(proj.slug, {"install", "promote"}) = 0
    /\ \A d \in Dirs : files[d][proj.slug] = last.pre[d][proj.slug]
    /\ \E i \in 1..Len(last.errs) :
          last.errs[i] = [kind |-> "modpack", slug |-> proj.slug]

C17_ModpackLeavesNothing ==
    /\ (last.op = "install" /\ IsModpack(last.ident)) =>
          /\ NothingOf(ModpackOf(last.ident))
          /\ files = last.pre
          /\ last.visited = {}
          /\ last.writes = <<>>
    /\ last.op = "install_from_file" =>
          /\ \A i \in Attempted :
                IsModpack(last.lines[i]) => NothingOf(ModpackOf(last.lines[i]))
          /\ Len(last.installed_any) + Len(last.failed) = Cardinality(Attempted)
          /\ (Attempted # {} /\ IsModpack(last.lines[Len(last.lines)])) =>
                /\ files = last.before.files
                /\ last.visited = last.before.visited
                /\ last.writes = last.before.writes

C17_Witness ==
    /\ last.op = "install_from_file"
    /\ last.lines = <<<<"m">>, <<"a">>>>
    /\ "a" \in last.visited
    /\ "m" \notin last.visited
    /\ Exists(files, MODS, "a")
    /\ ~Exists(last.pre, MODS, "a")
    /\ Len(last.errs) = 1

(***************************************************************************)
(* C18.  When no version of a project is compatible with the configured    *)
(* Minecraft version and loader, install persists no record for that       *)
(* project and does not go into its dependencies, while the records of its *)
(* ancestors and their remaining dependencies are installed as usual.      *)
(***************************************************************************)
\* the projects reported as having no compatible version in the last command
NoCompat == {last.errs[i].slug : i \in {j \in 1..Len(last.errs) :
                                           last.errs[j].kind = "nocompat"}}

\* the records the last command wrote by installing
Installs == {i \in 1..Len(last.writes) : last.writes[i].kind = "install"}

RecordOf(i) == files[last.writes[i].dir][last.writes[i].slug]

RECURSIVE DepLookups(_)
DepLookups(I) ==
    IF I = {} THEN 0
    ELSE LET i == CHOOSE j \in I : TRUE
         IN Len(RecordOf(i).dependencies) + DepLookups(I \ {i})

ProjectLookups ==
    Cardinality({i \in 1..Len(last.requests) : last.requests[i].kind = "project"})

\* the project lookups resolve_project makes for the identifiers typed
TypedLookups ==
    IF last.op = "install"
    THEN (IF Searched # {} /\ Picks(SearchHits(SlugOfInput(last.ident))) THEN 2 ELSE 1)
    ELSE Cardinality(Attempted)

C18_NoCompatibleVersionStopsBranchOnly ==
    (last.op \in {"install", "install_from_file"} /\ last.env = Quiet) =>
        /\ \A sl \in NoCompat :
              /\ Writes(sl, {"install"}) = 0
              /\ \A d \in Dirs :
                    /\ Exists(files, d, sl) <=> Exists(last.pre, d, sl)
                    /\ Exists(files, d, sl) =>
                          [files[d][sl] EXCEPT !.explicit = last.pre[d][sl].explicit]
                             = last.pre[d][sl]
        /\ \A i \in Installs :
              /\ Exists(files, last.writes[i].dir, last.writes[i].slug)
              /\ \A k \in 1..Len(RecordOf(i).dependencies) :
                    \E p \in Pids :
                       /\ Project(p).id = RecordOf(i).dependencies[k]
                       /\ Project(p).slug \in last.visited
        /\ ProjectLookups = TypedLookups + DepLookups(Installs)

C18_Witness ==
    /\ last.op = "install"
    /\ last.ident = <<"a">>
    /\ last.env = Quiet
    /\ NoCompat = {"s"}
    /\ Exists(files, MODS, "a")
    /\ files[MODS]["a"].dependencies = <<"pS", "pB">>
    /\ Exists(files, MODS, "b")
    /\ ~Exists(last.pre, MODS, "b")
    /\ \A d \in Dirs : ~Exists(files, d, "s")

(***************************************************************************)
(* C12 as stated.  In one batch that names both A and B, where A requires  *)
(* B, the final store holds A and B both with explicit = true whichever    *)
(* line comes first, and B's version list is requested exactly once in     *)
(* the batch.                                                              *)
(***************************************************************************)
\* the version find_best_version selects for the project now
Selected(pid) ==
    find_best_version(VersionList(pid, published), cfg.minecraft_version, cfg.loader)

\* the version of A that install_mod stores lists B as required
Requires(A, B) ==
    /\ Selected(A) # NoVersion
    /\ \E k \in 1..Len(Selected(A).dependencies) :
          /\ Selected(A).dependencies[k].project_id = B
          /\ Selected(A).dependencies[k].dependency_type = "required"

\* a line of the last batch names the project by its slug
Named(p) == \E i \in Attempted : last.lines[i] = <<Project(p).slug>>

StoredExplicit(p) ==
    /\ Exists(files, TargetDir(Project(p).project_type), Project(p).slug)
    /\ files[TargetDir(Project(p).project_type)][Project(p).slug].explicit

Unresolvable(line) == resolve_project(line, last.env).status # "ok"

\* the last line of the batch that is attempted
LastAttempted == CHOOSE i \in Attempted : \A j \in Attempted : j <= i

InSummary(line, summary) == \E k \in 1..Len(summary) : summary[k] = line

C11_FailingLineDoesNotEndBatch ==
    last.op = "install_from_file" =>
        /\ Len(last.installed_any) + Len(last.failed) = Cardinality(Attempted)
        /\ \A i \in Attempted :
              /\ Lookups(SlugOfInput(last.lines[i])) >= 1
              /\ InSummary(last.lines[i], last.installed_any)
                    \/ InSummary(last.lines[i], last.failed)
              /\ Unresolvable(last.lines[i]) =>
                    /\ InSummary(last.lines[i], last.failed)
                    /\ ~InSummary(last.lines[i], last.installed_any)
        /\ \A x \in Keys(last.before.files) :
              /\ Exists(files, x[1], x[2])
              /\ x \notin Keys(last.pre) => At(files, x).explicit
                                               \/ ~At(last.before.files, x).explicit
        /\ (Attempted # {} /\ Unresolvable(last.lines[LastAttempted])) =>
              files = last.before.files
        /\ last.status = "ok"

C11_Witness ==
    /\ last.op = "install_from_file"
    /\ last.env = Env(NoPid, "pB", 0)
    /\ last.lines = <<<<"b">>, <<"a">>>>
    /\ last.failed = <<<<"b">>>>
    /\ last.installed_any = <<<<"a">>>>
    /\ Exists(files, MODS, "a")
    /\ ~Exists(last.pre, MODS, "a")
    /\ Lookups("a") = 1

(***************************************************************************)
(* C20.  install stores the record in the directory its project_type       *)
(* determines: mod, resourcepack, shader and datapack each have their own  *)
(* one of four fixed directories, and every other type goes to the mod     *)
(* directory.                                                              *)
(***************************************************************************)
Bucket(project_type) ==
    CASE project_type = "mod" -> MODS
      [] project_type = "resourcepack" -> RESOURCEPACKS
      [] project_type = "shader" -> SHADERPACKS
      [] project_type = "datapack" -> DATAPACKS
      [] OTHER -> MODS

TypeOfSlug(slug) ==
    Project(CHOOSE p \in Pids : Project(p).slug = slug).project_type

C20_BucketByProjectType ==
    last.op \in {"install", "install_from_file"} =>
        \A i \in Installs :
            last.writes[i].dir = Bucket(TypeOfSlug(last.writes[i].slug))

(***************************************************************************)
(* C21.  When every record is compatible with a target that differs from   *)
(* the current Minecraft version, upgrade saves minecraft_version = target *)
(* and, the loader being fabric, resolves the loader again and saves its   *)
(* version too: after a successful upgrade the saved loader_version is the *)
(* build resolved for the saved minecraft_version.                         *)
(***************************************************************************)
\* upgrade returned normally, having resolved a target other than the
\* configuration's
UpgradeTo(target) ==
    /\ last.op = "upgrade"
    /\ last.status = "ok"
    /\ last.target = target
    /\ target # <<>>
    /\ target # last.precfg.minecraft_version

C21_UpgradeSavesVersionAndLoader ==
    \A target \in {V11, V12} :
        (UpgradeTo(target) /\ SelectsNone(last.pre, target) = {})
        => /\ cfg.minecraft_version = target
           /\ cfg.loader = "fabric" =>
                 /\ FabricLoaders(target) # <<>>
                 /\ cfg.loader_version = FabricLoaders(target)[1]

(***************************************************************************)
(* C22.  Target resolution (check, and upgrade with an argument) returns   *)
(* only a version of the registry's release list: "latest" gives the       *)
(* release with the greatest publish date and any other argument is        *)
(* returned only if it is exactly a listed release; an ill-formed or       *)
(* unlisted version ends the command with sys.exit(1) before any record    *)
(* is scanned and before anything is written.                              *)
(***************************************************************************)
Listed == {Releases(published)[i].version : i \in 1..Len(Releases(published))}

\* the listed release no other listed release is younger than
Youngest ==
    CHOOSE r \in {Releases(published)[i] : i \in 1..Len(Releases(published))} :
        \A i \in 1..Len(Releases(published)) :
            Releases(published)[i].date_published <= r.date_published

\* check, or upgrade with an argument
Targeted == last.op \in {"check", "upgrade"} /\ last.arg # <<>>

C22_TargetIsAListedRelease ==
    Targeted =>
        /\ last.target # <<>> =>
              /\ last.target \in Listed
              /\ IF lower(last.arg) = LatestWord
                 THEN last.target = Youngest.version
                 ELSE last.target = last.arg
        /\ (~last.net.tagsDown /\ lower(last.arg) # LatestWord /\ last.arg \notin Listed)
           => /\ last.status = "exit"
              /\ last.target = <<>>
        /\ last.status = "exit" =>
              /\ files = last.pre
              /\ cfg = last.precfg
              /\ last.reported = {}

C22_Witness ==
    /\ last.op = "upgrade"
    /\ last.arg = V13
    /\ last.status = "exit"
    /\ last.net.errVer = "pB"
    /\ Exists(last.pre, MODS, "b")
    /\ Exists(last.pre, MODS, "k")
    /\ published

(***************************************************************************)
(* C23.  install(identifier) terminates for every finite registry, also    *)
(* when the required dependencies form a cycle or a project requires       *)
(* itself, and within one call tree sharing `installed` each project's     *)
(* version list is requested at most once and its record is written by     *)
(* resolution at most once.                                                *)
(***************************************************************************)
\* the most required dependencies any version of the registry lists
MostDeps ==
    CHOOSE n \in 0..3 :
        /\ \A p \in Pids : \A i \in 1..Len(VersionList(p, published)) :
              Len(RequiredDeps(VersionList(p, published)[i].dependencies)) <= n
        /\ \E p \in Pids : \E i \in 1..Len(VersionList(p, published)) :
              Len(RequiredDeps(VersionList(p, published)[i].dependencies)) = n

\* a call tree that visits every project once makes no more requests
\* than this
CallBound(typed) == 3 * typed + Cardinality(Pids) * (1 + MostDeps)

C23_InstallTerminatesWithoutRepeats ==
    last.op \in {"install", "install_from_file"} =>
        /\ last.status \in {"ok", "exit", "error"}
        /\ Len(last.requests) <=
              CallBound(IF last.op = "install" THEN 1 ELSE Cardinality(Attempted))
        /\ \A p \in Pids :
              /\ Fetches(p) <= 1
              /\ Writes(Project(p).slug, {"install"}) <= 1
              /\ Writes(Project(p).slug, {"install"}) = 1 =>
                    /\ Fetches(p) = 1
                    /\ Project(p).slug \in last.visited

C23_Witness ==
    /\ last.op = "install_from_file"
    /\ last.lines = <<<<"a">>, <<"k">>>>
    /\ last.status = "ok"
    /\ files[MODS]["a"].dependencies = <<"pB">>
    /\ files[MODS]["b"].dependencies = <<"pA">>
    /\ files[MODS]["k"].dependencies = <<"pK">>
    /\ Lookups("pA") = 1
    /\ Lookups("pK") = 1
    /\ Fetches("pA") = 1
    /\ Fetches("pK") = 1

(***************************************************************************)
(* C24.  Starting from an empty store, after install(X) where every        *)
(* project reachable from X through required dependencies resolves, is not *)
(* a modpack and has a compatible version: the store holds exactly one     *)
(* record per reachable project, X's record has explicit = true and every  *)
(* other explicit = false, every project_id listed in a record's           *)
(* dependencies has a record, and a prune run right afterwards removes     *)
(* nothing.                                                                *)
(***************************************************************************)
\* the projects the registry makes reachable from S through the required
\* dependencies of the versions selected now
RECURSIVE RegistryClosure(_)
RegistryClosure(S) ==
    LET next == UNION {SeqRange(RequiredDeps(Selected(p).dependencies)) :
                         p \in {q \in S : Selected(q) # NoVersion}}
    IN IF next \subseteq S THEN S ELSE RegistryClosure(S \cup next)

\* the project the last `add` resolved its identifier to
TypedProject == resolve_project(last.ident, last.env).proj

\* the last command is an `add` on an empty store that meets C24's conditions
CleanInstall ==
    /\ last.op = "install"
    /\ last.pre = EmptyStore
    /\ last.env.errProj = NoPid /\ last.env.errVer = NoPid
    /\ resolve_project(last.ident, last.env).status = "ok"
    /\ \A p \in RegistryClosure({TypedProject.id}) :
          Project(p).project_type # "modpack" /\ Selected(p) # NoVersion

C24_InstallOnEmptyStoreIsClosed ==
    CleanInstall =>
        /\ {At(files, x).project_id : x \in Keys(files)}
              = RegistryClosure({TypedProject.id})
        /\ Cardinality(Keys(files)) = Cardinality(RegistryClosure({TypedProject.id}))
        /\ \A x \in Keys(files) :
              At(files, x).explicit <=> At(files, x).project_id = TypedProject.id
        /\ \A x \in Keys(files) : \A k \in 1..Len(At(files, x).dependencies) :
              \E y \in Keys(files) :
                 At(files, y).project_id = At(files, x).dependencies[k]
        /\ prune_unused_deps(files).removed = {}

(***************************************************************************)
(* C25.  Whenever install or update_all writes a record, its dependencies  *)
(* are, in order, the project_ids of exactly those dependencies of the     *)
(* selected version whose dependency_type is "required", and its file is   *)
(* the selected version's first file; no other operation (promotion,       *)
(* check, upgrade, pruning other records) changes a record's dependencies. *)
(***************************************************************************)
IsRequired(dep) == dep.dependency_type = "required"

RequiredIds(version) ==
    [i \in 1..Len(SelectSeq(version.dependencies, IsRequired)) |->
        SelectSeq(version.dependencies, IsRequired)[i].project_id]

\* the record at x is a snapshot of the version selected for it now
SnapshotOf(x, version) ==
    /\ At(files, x).version_id = version.id
    /\ At(files, x).dependencies = RequiredIds(version)
    /\ At(files, x).file = version.files[1]

\* the records the last command wrote by resolution
Resolved ==
    CASE last.op \in {"install", "install_from_file"} ->
            {<<last.writes[i].dir, last.writes[i].slug>> : i \in Installs}
      [] last.op = "update_all" ->
            {x \in Keys(last.pre) : x[2] \in last.updated}
      [] OTHER -> {}

C25_DependenciesAreASnapshot ==
    last.op # "none" =>
        /\ \A x \in Resolved :
              /\ Exists(files, x[1], x[2])
              /\ SnapshotOf(x, Selected(At(files, x).project_id))
        /\ \A x \in Keys(last.pre) \ Resolved :
              Exists(files, x[1], x[2]) =>
                 /\ At(files, x).dependencies = At(last.pre, x).dependencies
                 /\ At(files, x).file = At(last.pre, x).file
                 /\ At(files, x).version_id = At(last.pre, x).version_id

C25_Witness ==
    /\ last.op = "install_from_file"
    /\ last.lines = <<<<"b">>, <<"a">>>>
    /\ Selected("pA").id = "a1"
    /\ Len(Selected("pA").dependencies) = 2
    /\ files[MODS]["a"].dependencies = <<"pB">>
    /\ files[MODS]["a"].explicit
    /\ Writes("a", {"install"}) = 1
    /\ Writes("a", {"promote"}) = 1
    /\ \A d \in Dirs : ~Exists(files, d, "d")

(***************************************************************************)
(* C26.  The side install records comes from the project's client_side and *)
(* server_side flags: "both" when both sides are supported, "client" when  *)
(* only the client side is, "server" when only the server side is,         *)
(* "unknown" when neither is; a flag that is missing or has any value      *)
(* other than "unsupported" counts as supported.                           *)
(***************************************************************************)
Supports(p, flag) ==
    flag \notin DOMAIN Project(p) \/ Project(p)[flag] # "unsupported"

SideOf(p) ==
    CASE Supports(p, "client_side") /\ Supports(p, "server_side") -> "both"
      [] Supports(p, "client_side") /\ ~Supports(p, "server_side") -> "client"
      [] ~Supports(p, "client_side") /\ Supports(p, "server_side") -> "server"
      [] OTHER -> "unknown"

C26_SideFromProjectFlags ==
    last.op \in {"install", "install_from_file"} =>
        \A i \in Installs : RecordOf(i).side = SideOf(RecordOf(i).project_id)

C26_Witness ==
    /\ last.op = "install"
    /\ last.ident = <<"s">>
    /\ "client_side" \notin DOMAIN Project("pS")
    /\ Exists(files, SHADERPACKS, "s")
    /\ files[SHADERPACKS]["s"].side = "client"
    /\ \E x \in Keys(files) : At(files, x).side = "unknown"
    /\ \E x \in Keys(files) : At(files, x).side = "both"

(***************************************************************************)
(* C27.  Prune runs only as the second step of a successful remove:        *)
(* install, install_from_file, update_all, upgrade and check never delete  *)
(* a record, even when they leave the store holding records that are       *)
(* neither explicit nor reachable from an explicit record.                 *)
(***************************************************************************)
NeverPruning == {"install", "install_from_file", "update_all", "upgrade", "check"}

C27_OnlyRemovePrunes ==
    last.op \in NeverPruning =>
        /\ \A x \in Keys(last.pre) : Exists(files, x[1], x[2])
        /\ last.removed = {}

C27_Witness ==
    /\ last.op = "update_all"
    /\ last.updated # {}
    /\ Unneeded(last.pre) = {}
    /\ Unneeded(files) # {}
    /\ \A x \in Keys(last.pre) : Exists(files, x[1], x[2])

(***************************************************************************)
(* C28.  update_all never creates or deletes a record: the slugs of each   *)
(* directory are the same after the call as before it, even when a newly   *)
(* selected version requires a project that has no record or no longer     *)
(* requires one that has only an implicit record.                          *)
(***************************************************************************)
C28_UpdateKeepsTheSlugs ==
    last.op = "update_all" =>
        \A d \in Dirs : Glob(files, d) = Glob(last.pre, d)

\* a project id that has a record in the store
Installed(fs, pid) == \E x \in Keys(fs) : At(fs, x).project_id = pid

C28_Witness ==
    /\ last.op = "update_all"
    /\ \E x \in Keys(files) : \E k \in 1..Len(At(files, x).dependencies) :
          /\ At(files, x).dependencies[k] \notin SeqRange(At(last.pre, x).dependencies)
          /\ ~Installed(files, At(files, x).dependencies[k])
    /\ \E y \in Keys(files) : \E k \in 1..Len(At(last.pre, y).dependencies) :
          /\ At(last.pre, y).dependencies[k] \notin SeqRange(At(files, y).dependencies)
          /\ Installed(files, At(last.pre, y).dependencies[k])
          /\ \A z \in Keys(files) :
                At(files, z).project_id = At(last.pre, y).dependencies[k]
                   => ~At(files, z).explicit
    /\ Unneeded(files) # {}

(***************************************************************************)
(* C29.  upgrade never creates, modifies or deletes an install record,     *)
(* whether it succeeds, is blocked or finds the target equal to the        *)
(* current game version.  The only state it can change is the pack         *)
(* configuration's minecraft_version and loader_version, and when the      *)
(* target equals the current game version the configuration is unchanged   *)
(* too.                                                                    *)
(***************************************************************************)
C29_UpgradeTouchesOnlyTheConfig ==
    last.op = "upgrade" =>
        /\ files = last.pre
        /\ [cfg EXCEPT !.minecraft_version = last.precfg.minecraft_version,
                       !.loader_version = last.precfg.loader_version] = last.precfg
        /\ last.target = last.precfg.minecraft_version => cfg = last.precfg

\* the three ways of the claim, each with records in the store
C29_Witness ==
    /\ last.op = "upgrade"
    /\ Keys(last.pre) # {}
    /\ last.outcome = "blocked"
    /\ last.reported # {}

C29_WitnessUpgraded ==
    /\ last.op = "upgrade"
    /\ Keys(last.pre) # {}
    /\ last.outcome = "upgraded"
    /\ cfg # last.precfg

C29_WitnessAlready ==
    /\ last.op = "upgrade"
    /\ Keys(last.pre) # {}
    /\ last.outcome = "already"
    /\ last.target = last.precfg.minecraft_version

(***************************************************************************)
(* C30.  In install_from_file every line that is neither empty nor a       *)
(* comment is counted exactly once, as installed or as failed; a line is   *)
(* counted as installed only if a record of its project exists when the    *)
(* line finishes; a line rejected as a modpack or lacking any compatible   *)
(* version is counted as failed.                                           *)
(***************************************************************************)
\* the project a line of the last batch resolves to
LineProject(line) == resolve_project(line, last.env).proj

\* the line names a project install_mod gives up on without raising
GivenUp(line) ==
    /\ ~Unresolvable(line)
    /\ \/ LineProject(line).project_type = "modpack"
       \/ LineProject(line).slug \in NoCompat

C30_EveryLineCountedOnce ==
    last.op = "install_from_file" =>
        /\ Len(last.installed_any) + Len(last.failed) = Cardinality(Attempted)
        /\ \A i \in Attempted :
              /\ InSummary(last.lines[i], last.installed_any)
                    \/ InSummary(last.lines[i], last.failed)
              /\ InSummary(last.lines[i], last.installed_any) =>
                    /\ ~Unresolvable(last.lines[i])
                    /\ \E d \in Dirs : Exists(files, d, LineProject(last.lines[i]).slug)
              /\ GivenUp(last.lines[i]) => InSummary(last.lines[i], last.failed)

\* the counting itself: one entry per attempted line, failures by exception
C30_CountedOnceAndRaisedIsFailed ==
    last.op = "install_from_file" =>
        /\ Len(last.installed_any) + Len(last.failed) = Cardinality(Attempted)
        /\ \A i \in Attempted :
              /\ InSummary(last.lines[i], last.installed_any)
                    \/ InSummary(last.lines[i], last.failed)
              /\ Unresolvable(last.lines[i]) => InSummary(last.lines[i], last.failed)

\* a modpack line and a line without compatible version, both counted installed
C30_GivenUpCountedInstalled ==
    /\ last.op = "install_from_file"
    /\ last.lines = <<<<"m">>, <<"s">>>>
    /\ last.installed_any = last.lines
    /\ last.failed = <<>>
    /\ files = last.pre
    /\ "s" \in NoCompat

(***************************************************************************)
(* C31.  install is not rolled back on error.  When the resolution of a    *)
(* dependency raises in the middle of a call tree (not found after the     *)
(* search, selection cancelled, transport error), the records the call     *)
(* tree has already written stay in the store with their dependency lists  *)
(* intact, the dependencies the call tree has not reached are not          *)
(* installed, and every slug already visited stays in the shared visited   *)
(* set for the rest of the batch.                                          *)
(***************************************************************************)
\* the last command went through install_mod
Installing == last.op \in {"install", "install_from_file"}

\* the record of write i is in the store as install_mod built it
Kept(i) ==
    /\ Exists(files, last.writes[i].dir, last.writes[i].slug)
    /\ RecordOf(i).slug = last.writes[i].slug
    /\ RecordOf(i).dependencies = RequiredIds(Selected(RecordOf(i).project_id))

\* a listed dependency the call trees of the last command never reached
Unreached(pid) == Project(pid).slug \notin last.visited

\* the project has exactly the records it had before the last command
Untouched(pid) == \A d \in Dirs : files[d][Project(pid).slug] = last.pre[d][Project(pid).slug]

C31_InstallIsNotRolledBack ==
    Installing =>
        /\ \A i \in Installs :
              /\ Kept(i)
              /\ last.writes[i].slug \in last.visited
              /\ \A k \in 1..Len(RecordOf(i).dependencies) :
                    Unreached(RecordOf(i).dependencies[k])
                       => Untouched(RecordOf(i).dependencies[k])
        /\ \A p \in Pids :
              /\ Fetches(p) <= 1
              /\ Fetches(p) = 1 => Project(p).slug \in last.visited
        /\ last.op = "install_from_file" =>
              /\ last.before.visited \subseteq last.visited
              /\ \A x \in Keys(last.before.files) : Exists(files, x[1], x[2])
        /\ (last.op = "install" /\ last.status # "ok") =>
              /\ last.requests # <<>>
              /\ last.requests[Len(last.requests)].kind = "versions"
                    => last.env.errVer = last.requests[Len(last.requests)].key
              /\ last.requests[Len(last.requests)].kind = "project"
                    => \/ last.env.errProj \in Known(last.requests[Len(last.requests)].key)
                       \/ Known(last.requests[Len(last.requests)].key) = {}

\* the first dependency of r is gone from the registry: r stays, its second
\* dependency and that one's dependency are never reached
C31_Witness ==
    /\ last.op = "install"
    /\ last.ident = <<"r">>
    /\ last.env = Gone("pD")
    /\ last.status = "exit"
    /\ Exists(files, RESOURCEPACKS, "r")
    /\ ~Exists(last.pre, RESOURCEPACKS, "r")
    /\ files[RESOURCEPACKS]["r"].dependencies = <<"pD", "pB">>
    /\ last.visited = {"r"}
    /\ \A sl \in {"d", "b", "a"} : ~Exists(files, MODS, sl)
    /\ Selected("pB") # NoVersion

\* a transport error at the second dependency: r and d stay
C31_WitnessTransport ==
    /\ last.op = "install"
    /\ last.ident = <<"r">>
    /\ last.env.errProj = "pB"
    /\ last.status = "error"
    /\ Exists(files, RESOURCEPACKS, "r") /\ ~Exists(last.pre, RESOURCEPACKS, "r")
    /\ Exists(files, MODS, "d") /\ ~Exists(last.pre, MODS, "d")
    /\ last.visited = {"r", "d"}
    /\ \A sl \in {"b", "a"} : ~Exists(files, MODS, sl)

\* the second line meets the slug the failed first line left visited
C31_WitnessBatch ==
    /\ last.op = "install_from_file"
    /\ last.lines = <<<<"a">>, <<"a">>>>
    /\ last.env.errProj = "pB"
    /\ last.failed = <<<<"a">>>>
    /\ last.installed_any = <<<<"a">>>>
    /\ last.before.visited = {"a"}
    /\ last.visited = {"a"}
    /\ Exists(files, MODS, "a") /\ ~Exists(last.pre, MODS, "a")
    /\ files[MODS]["a"].dependencies = <<"pB">>
    /\ ~Exists(files, MODS, "b")
    /\ Fetches("pA") = 1
    /\ Lookups("pB") = 1

(***************************************************************************)
(* C32.  mc_version_matches is symmetric on single strings and false on    *)
(* the empty list: matches(a, [b]) = matches(b, [a]) for all strings a and *)
(* b; matches(t, []) is false for every t; and matches(t, S) holds if and  *)
(* only if matches(t, [s]) holds for some entry s of S.                    *)
(***************************************************************************)
C32_SymmetricAndDisjunctive ==
    /\ mSupported = <<>> => ~mResult
    /\ Len(mSupported) = 1 =>
          (mResult <=> mc_version_matches(mSupported[1], <<mTarget>>))
    /\ mResult <=> \E i \in 1..Len(mSupported) :
                      mc_version_matches(mTarget, <<mSupported[i]>>)

\* only the second entry accepts the target
C32_Witness ==
    /\ mTarget = <<"1", ".", "1", ".", "1">>
    /\ mSupported = <<V11, V1x>>
    /\ mResult
    /\ ~mc_version_matches(mTarget, <<V11>>)
    /\ mc_version_matches(mTarget, <<V1x>>)

\* a wildcard target accepted by a plain entry, and the other way round
C32_WitnessSymmetric ==
    /\ mTarget = V1x
    /\ mSupported = <<V11>>
    /\ mResult
    /\ mc_version_matches(V11, <<V1x>>)

\* no entry accepts the target
C32_WitnessNone ==
    /\ mTarget = <<"1", ".", "1", ".", "1">>
    /\ mSupported = <<V11, <<"1">>>>
    /\ ~mResult

====
